---- MODULE Spec2Model ----
(***************************************************************************)
(* A model of the question-pool engine of GenNews                          *)
(* (src/src/api/ollama_client.py): the record validator                    *)
(* validate_single_question, the accumulation loop generate_questions_pool,*)
(* the selector select_diverse_questions and the output repairer           *)
(* clean_json_content.                                                     *)
(*                                                                         *)
(* Text is modelled as text: questions, metrics, timeframes and raw model  *)
(* output are TLA+ strings, and the Python string operations (in, upper,   *)
(* lower, replace, re.sub, strptime, float, json.loads) are operators that *)
(* walk the characters.  Numbers are integers: every float of the model is *)
(* integer-valued, and 0.5*P <= v is computed as P <= 2*v.                 *)
(***************************************************************************)
EXTENDS Integers, Sequences, FiniteSets, TLC

VARIABLES
    \* ---- generate_questions_pool ----
    num_questions,        \* argument num_questions
    required_categories,  \* argument required_categories (after line 465)
    crypto_data,          \* argument crypto_data, as the list of its items
    allowed_countries,    \* acled_data.get('countries', [])
    pool_targets,         \* line 483
    question_pool,        \* line 485
    used_questions,       \* line 486
    total_attempts,       \* line 487
    category_counts,      \* line 489
    target_category,      \* line 523
    retry_count,          \* line 531
    response,             \* line 530: the text that ollama.chat returned, "None" before it does
    slept,                \* the time.sleep calls of the current iteration
    pc,                   \* position in generate_questions_pool
    \* ---- select_diverse_questions ----
    sel_pool,             \* argument pool
    sel_num,              \* argument num_questions
    sel_categories,       \* argument required_categories
    selected,             \* line 691
    sel_used,             \* line 692 (used_questions)
    extra,                \* line 689
    cat_idx,              \* index of the for loops of lines 695 and 747
    sel_result,           \* the returned list
    sel_pc,               \* position in select_diverse_questions
    \* ---- clean_json_content ----
    raw,                  \* argument content
    cleaned,              \* the returned text
    clean_pc,             \* position in clean_json_content
    \* ---- generate_questions_ollama_parallel ----
    par_num,              \* argument num_questions
    par_crypto,           \* argument crypto_data, as the list of its items
    probe,                \* what check_ollama_server met: "none" before the probe
    tasks,                \* the list tasks of line 1122, each a task of the event loop
    calls,                \* how many times ollama.chat has been called
    par_result,           \* the returned list
    par_pc,               \* position in generate_questions_ollama_parallel
    \* ---- select_diverse_category_questions ----
    div_questions,        \* argument questions
    div_count,            \* argument count
    div_order,            \* the iteration order of the sets of entities (lines 814-815)
    div_matrix,           \* line 640 (diversity_matrix)
    div_result,           \* the returned list
    div_pc,               \* position in select_diverse_category_questions
    \* ---- the two validate_single_question ----
    val_record,           \* argument question
    val_crypto,           \* argument crypto_data, as the list of its items
    val_countries,        \* argument countries
    val_once,             \* what the pool validator returned and left of the record
    val_twice,            \* the same for a second call on the record it left
    val_strict,           \* what the validator of question_generator.py returned
    val_pc                \* which calls have been made

pool_vars == <<num_questions, required_categories, crypto_data, allowed_countries,
               pool_targets, question_pool, used_questions, total_attempts,
               category_counts, target_category, retry_count, response, slept, pc>>
sel_vars == <<sel_pool, sel_num, sel_categories, selected, sel_used, extra,
              cat_idx, sel_result, sel_pc>>
clean_vars == <<raw, cleaned, clean_pc>>
par_vars == <<par_num, par_crypto, probe, tasks, calls, par_result, par_pc>>
div_vars == <<div_questions, div_count, div_order, div_matrix, div_result, div_pc>>
val_vars == <<val_record, val_crypto, val_countries, val_once, val_twice, val_strict, val_pc>>
pure_vars == <<div_vars, val_vars>>
vars == <<pool_vars, sel_vars, clean_vars, par_vars, pure_vars>>

(***************************************************************************)
(* Python string operations.                                               *)
(***************************************************************************)
\* s[a-1:b] with the indices clamped to the text, as a Python slice is
Slice(s, a, b) ==
    LET lo == IF a < 1 THEN 1 ELSE a
        hi == IF b > Len(s) THEN Len(s) ELSE b
    IN IF lo > hi THEN "" ELSE SubSeq(s, lo, hi)

\* the character at position i (1-based), "" past the end
Char(s, i) == Slice(s, i, i)

\* s[i-1:] starts with lit
StartsAt(s, i, lit) == i >= 1 /\ i + Len(lit) - 1 <= Len(s) /\ Slice(s, i, i + Len(lit) - 1) = lit

\* needle in hay
Contains(hay, needle) ==
    \E i \in 1..(Len(hay) - Len(needle) + 1) : StartsAt(hay, i, needle)

LowerLetters == "abcdefghijklmnopqrstuvwxyz"
UpperLetters == "ABCDEFGHIJKLMNOPQRSTUVWXYZ"
Digits == "0123456789"

IndexIn(c, chars) == CHOOSE i \in 1..Len(chars) : Char(chars, i) = c

\* the characters of each class, and the case mappings and digit values as tables
LowerSet == {Char(LowerLetters, i) : i \in 1..Len(LowerLetters)}
UpperSet == {Char(UpperLetters, i) : i \in 1..Len(UpperLetters)}
DigitSet == {Char(Digits, i) : i \in 1..Len(Digits)}
ToUpper == [c \in LowerSet |-> Char(UpperLetters, IndexIn(c, LowerLetters))]
ToLower == [c \in UpperSet |-> Char(LowerLetters, IndexIn(c, UpperLetters))]
DigitValue == [c \in DigitSet |-> IndexIn(c, Digits) - 1]

UpperChar(c) == IF c \in LowerSet THEN ToUpper[c] ELSE c
LowerChar(c) == IF c \in UpperSet THEN ToLower[c] ELSE c

RECURSIVE Upper(_)
Upper(s) == IF s = "" THEN "" ELSE UpperChar(Head(s)) \o Upper(Tail(s))

RECURSIVE Lower(_)
Lower(s) == IF s = "" THEN "" ELSE LowerChar(Head(s)) \o Lower(Tail(s))

\* the first position i of s with at(s, i), 0 when there is none: where a scan
\* from the left finds its next match
FirstAt(s, at(_, _)) ==
    IF \A i \in 1..Len(s) : ~at(s, i) THEN 0
    ELSE CHOOSE i \in {k \in 1..Len(s) : at(s, k)} : \A j \in {k \in 1..Len(s) : at(s, k)} : i <= j

\* s.replace(old, new), old non-empty: leftmost occurrences, not overlapping
OccursAt(s, i, old) == StartsAt(s, i, old)
RECURSIVE Replace(_, _, _)
Replace(s, old, new) ==
    IF FirstAt(s, LAMBDA t, k : OccursAt(t, k, old)) = 0 THEN s
    ELSE Slice(s, 1, FirstAt(s, LAMBDA t, k : OccursAt(t, k, old)) - 1) \o new
         \o Replace(Slice(s, FirstAt(s, LAMBDA t, k : OccursAt(t, k, old)) + Len(old), Len(s)), old, new)

\* the position after an optional literal at position i: (?:lit)?
Opt(s, i, lit) == IF StartsAt(s, i, lit) THEN i + Len(lit) ELSE i

IsDigits(s) == s /= "" /\ \A i \in 1..Len(s) : Char(s, i) \in DigitSet

RECURSIVE DigitsValue(_)
DigitsValue(s) ==
    IF s = "" THEN 0
    ELSE 10 * DigitsValue(Slice(s, 1, Len(s) - 1)) + DigitValue[Char(s, Len(s))]

RECURSIVE NatToStr(_)
NatToStr(n) == IF n < 10 THEN Char(Digits, n + 1) ELSE NatToStr(n \div 10) \o Char(Digits, (n % 10) + 1)

\* the digits of a text without its sign and without the ".0" that str() writes
\* after an integer-valued float
WholeDigits(s) ==
    IF Len(s) > 2 /\ Slice(s, Len(s) - 1, Len(s)) = ".0"
    THEN Slice(s, IF StartsAt(s, 1, "-") THEN 2 ELSE 1, Len(s) - 2)
    ELSE Slice(s, IF StartsAt(s, 1, "-") THEN 2 ELSE 1, Len(s))

\* float(s) for the texts of the model: an optional sign, decimal digits and an
\* optional ".0"; any other text is a ValueError.
FloatOk(s) == IsDigits(WholeDigits(s))
FloatOf(s) ==
    IF StartsAt(s, 1, "-") THEN 0 - DigitsValue(WholeDigits(s)) ELSE DigitsValue(WholeDigits(s))

\* str(float(v)) of an integer-valued float
StrFloat(v) == (IF v < 0 THEN "-" \o NatToStr(0 - v) ELSE NatToStr(v)) \o ".0"

(***************************************************************************)
(* datetime.strptime(timeframe, '%Y/%m/%d') and datetime comparison.       *)
(***************************************************************************)
IsLeap(y) == y % 4 = 0 /\ (y % 100 /= 0 \/ y % 400 = 0)

DaysInMonth(y, m) ==
    IF m = 2 THEN (IF IsLeap(y) THEN 29 ELSE 28)
    ELSE IF m \in {4, 6, 9, 11} THEN 30 ELSE 31

RECURSIVE DaysBeforeMonth(_, _)
DaysBeforeMonth(y, m) == IF m = 1 THEN 0 ELSE DaysBeforeMonth(y, m - 1) + DaysInMonth(y, m - 1)

\* datetime(y, m, d).toordinal()
Ordinal(y, m, d) ==
    365 * (y - 1) + ((y - 1) \div 4) - ((y - 1) \div 100) + ((y - 1) \div 400)
    + DaysBeforeMonth(y, m) + d

\* the text splits as YYYY/M/D with a 4-digit year and 1- or 2-digit month and day
DateFields(s) ==
    LET p == IF Char(s, 7) = "/" THEN 7 ELSE 8 IN
    [y |-> Slice(s, 1, 4), m |-> Slice(s, 6, p - 1), d |-> Slice(s, p + 1, Len(s))]

\* strptime succeeds (no ValueError)
DateOk(s) ==
    /\ Len(s) >= 8
    /\ Char(s, 5) = "/"
    /\ LET f == DateFields(s) IN
       /\ IsDigits(f.y) /\ DigitsValue(f.y) >= 1
       /\ IsDigits(f.m) /\ Len(f.m) <= 2 /\ DigitsValue(f.m) \in 1..12
       /\ IsDigits(f.d) /\ Len(f.d) <= 2
       /\ DigitsValue(f.d) \in 1..DaysInMonth(DigitsValue(f.y), DigitsValue(f.m))

DateOf(s) ==
    LET f == DateFields(s) IN Ordinal(DigitsValue(f.y), DigitsValue(f.m), DigitsValue(f.d))

min_date == Ordinal(2024, 12, 1)
max_date == Ordinal(2025, 6, 30)

(***************************************************************************)
(* validate_single_question (ollama_client.py, lines 354-451).             *)
(***************************************************************************)
required_fields == {"question", "timeframe", "category", "metric", "target_value"}
valid_categories == {"economic_indicator", "social_events", "cryptocurrency", "financial_market"}

\* line 392 without the upper limit
DateNotBeforeMin(s) == min_date <= DateOf(s)

\* line 392, for a timeframe that strptime accepts
DateInRange(s) == min_date <= DateOf(s) /\ DateOf(s) <= max_date

\* the position after the optional " Inc" or " Corp" and its optional "."
SkipSuffix(s, j, suffix) == IF StartsAt(s, j, suffix) THEN Opt(s, j + Len(suffix), ".") ELSE j

\* the position after a match of Name(?:'s)?(?: Inc\.?)?(?: stock)?(?: price)? at 1
CompanyEnd(s, name, suffix) ==
    Opt(s, Opt(s, SkipSuffix(s, Opt(s, Len(name) + 1, "'s"), suffix), " stock"), " price")

\* re.sub(r"Name(?:'s)?(?: Inc\.?)?(?: stock)?(?: price)?", repl, s); suffix is " Inc" or " Corp"
RECURSIVE SubCompany(_, _, _, _)
SubCompany(s, name, suffix, repl) ==
    IF s = "" THEN ""
    ELSE IF StartsAt(s, 1, name)
        THEN repl \o SubCompany(Slice(s, CompanyEnd(s, name, suffix), Len(s)), name, suffix, repl)
    ELSE Head(s) \o SubCompany(Tail(s), name, suffix, repl)

\* the position after a match of {name}(?:'s)?(?: price)? at 1
AssetEnd(s, name) == Opt(s, Opt(s, Len(name) + 1, "'s"), " price")

\* re.sub(f"{name}(?:'s)?(?: price)?", repl, s)
RECURSIVE SubAsset(_, _, _)
SubAsset(s, name, repl) ==
    IF s = "" THEN ""
    ELSE IF StartsAt(s, 1, name)
        THEN repl \o SubAsset(Slice(s, AssetEnd(s, name), Len(s)), name, repl)
    ELSE Head(s) \o SubAsset(Tail(s), name, repl)

\* lines 373-377: one substitution per quote, in the order of crypto_data.items()
RECURSIVE NormalizeCrypto(_, _)
NormalizeCrypto(s, crypto) ==
    IF crypto = <<>> THEN s
    ELSE NormalizeCrypto(
            SubAsset(s, Head(crypto).name, Head(crypto).name \o " (" \o Head(crypto).symbol \o ")"),
            Tail(crypto))

\* lines 367-377
NormalizeQuestion(s, crypto) ==
    NormalizeCrypto(
        SubCompany(SubCompany(s, "Apple", " Inc", "Apple (AAPL.US)"),
                   "Microsoft", " Corp", "Microsoft (MSFT.US)"),
        crypto)

\* line 402: str(target_value).replace('$', '').replace(',', '')
StripValue(s) == Replace(Replace(s, "$", ""), ",", "")

\* lines 405-413 with the upper limit at three times the price
CryptoRangeWide(text, value, crypto) ==
    \A i \in 1..Len(crypto) :
        Contains(text, crypto[i].symbol) =>
            (crypto[i].price <= 2 * value /\ value <= 3 * crypto[i].price)

\* lines 405-413: every quote whose symbol is in the question bounds the value
CryptoRangeOk(text, value, crypto) ==
    \A i \in 1..Len(crypto) :
        Contains(text, crypto[i].symbol) =>
            (crypto[i].price <= 2 * value /\ value <= 2 * crypto[i].price)

\* lines 415-418
SocialRangeOk(value) == 50 <= value /\ value <= 500

\* lines 420-428
EconomicRangeOk(metric, value) ==
    IF Contains(Lower(metric), "gdp") THEN 20000 <= value /\ value <= 50000
    ELSE IF Contains(Lower(metric), "unemployment") THEN 2 <= value /\ value <= 15
    ELSE TRUE

\* lines 400-432, given the parsed value
ValueRangeOk(q, text, value, crypto) ==
    IF q.category = "cryptocurrency" /\ crypto /= <<>> THEN CryptoRangeOk(text, value, crypto)
    ELSE IF q.category = "social_events" THEN SocialRangeOk(value)
    ELSE IF q.category = "economic_indicator" THEN EconomicRangeOk(q.metric, value)
    ELSE TRUE

\* lines 435-443 without the test
CountryUnchecked(q, text, countries) == TRUE

\* lines 435-443
CountryOk(q, text, countries) ==
    (q.category = "social_events" /\ countries /= <<>>) =>
        \E i \in 1..Len(countries) : Contains(Upper(text), countries[i])

\* lines 400-443: the range and country checks on the record with its parsed value
ValidateRanges(q2, crypto, countries) ==
    IF ~ValueRangeOk(q2, q2.question, q2.target_value, crypto) THEN [ok |-> FALSE, q |-> q2]
    ELSE IF ~CountryOk(q2, q2.question, countries) THEN [ok |-> FALSE, q |-> q2]
    ELSE [ok |-> TRUE, q |-> q2]

\* lines 379-403: category, date and value checks on the record with its normalized text
ValidateNormalized(q1, crypto, countries) ==
    IF q1.category \notin valid_categories THEN [ok |-> FALSE, q |-> q1]
    ELSE IF ~DateOk(q1.timeframe) THEN [ok |-> FALSE, q |-> q1]
    ELSE IF ~DateInRange(q1.timeframe) THEN [ok |-> FALSE, q |-> q1]
    ELSE IF ~FloatOk(StripValue(q1.target_value)) THEN [ok |-> FALSE, q |-> q1]
    ELSE ValidateRanges([q1 EXCEPT !.target_value = FloatOf(StripValue(q1.target_value))],
                        crypto, countries)

\* The validator returns True or False and rewrites the record in place:
\* ok is the returned value, q the record as the call leaves it.
validate_single_question(question, crypto, countries) ==
    IF ~(required_fields \subseteq DOMAIN question) THEN [ok |-> FALSE, q |-> question]
    ELSE ValidateNormalized(
            [question EXCEPT !.question = NormalizeQuestion(question.question, crypto)],
            crypto, countries)

(***************************************************************************)
(* The inputs of the model.  A candidate is one element of the list that   *)
(* json.loads builds from a cleaned response (line 563); target_value is   *)
(* written as str(target_value), which is how line 402 reads it.           *)
(***************************************************************************)
CandE1 ==
    [question |-> "Will US GDP exceed 30000 by 2025/03/31?",
     timeframe |-> "2025/03/31",
     category |-> "economic_indicator",
     metric |-> "gdp",
     target_value |-> "30000"]
CandE2 ==
    [question |-> "Will unemployment reach 4 by 2025/02/15?",
     timeframe |-> "2025/02/15",
     category |-> "economic_indicator",
     metric |-> "unemployment_rate",
     target_value |-> "4"]
CandE3 ==
    [question |-> "Will CPI reach 5 by 2025/04/01?",
     timeframe |-> "2025/04/01",
     category |-> "economic_indicator",
     metric |-> "cpi",
     target_value |-> "5"]
CandE4 ==
    [question |-> "Will inflation reach 3 by 2025/05/01?",
     timeframe |-> "2025/05/01",
     category |-> "economic_indicator",
     metric |-> "inflation_rate",
     target_value |-> "3"]
CandE5 ==
    [question |-> "Will US GDP exceed 100 by 2025/03/31?",
     timeframe |-> "2025/03/31",
     category |-> "economic_indicator",
     metric |-> "gdp",
     target_value |-> "100"]
CandE6 ==
    [question |-> "Will real GDP exceed 25000 by 2025/06/30?",
     timeframe |-> "2025/06/30",
     category |-> "economic_indicator",
     metric |-> "Real GDP",
     target_value |-> "25000"]
CandE7 ==
    [question |-> "Will unemployment reach 40 by 2025/02/15?",
     timeframe |-> "2025/02/15",
     category |-> "economic_indicator",
     metric |-> "unemployment_rate",
     target_value |-> "40"]
CandE8 ==
    [question |-> "Will GDP top 30000 by 2025/03/31?",
     timeframe |-> "2025/03/31",
     category |-> "economic_indicator",
     metric |-> "gdp",
     target_value |-> "30,000"]
CandK1 ==
    [question |-> "Will Bitcoin price exceed 100000 by 2025/03/31?",
     timeframe |-> "2025/03/31",
     category |-> "cryptocurrency",
     metric |-> "price_target",
     target_value |-> "$100,000",
     measurement_source |-> "CoinMarketCap"]
CandK2 ==
    [question |-> "Will BTC reach 50000 by 2025/01/15?",
     timeframe |-> "2025/01/15",
     category |-> "cryptocurrency",
     metric |-> "price_target",
     target_value |-> "50000"]
CandK3 ==
    [question |-> "Will Dogecoin exceed 1 by 2025/02/01?",
     timeframe |-> "2025/02/01",
     category |-> "cryptocurrency",
     metric |-> "price_target",
     target_value |-> "1"]
CandK4 ==
    [question |-> "Will ETH exceed 9000 by 2025/02/01?",
     timeframe |-> "2025/02/01",
     category |-> "cryptocurrency",
     metric |-> "price_target",
     target_value |-> "9000"]
CandK5 ==
    [question |-> "Will BTC exceed 250000 by 2025/06/01?",
     timeframe |-> "2025/06/01",
     category |-> "cryptocurrency",
     metric |-> "price_target",
     target_value |-> "250000"]
CandS1 ==
    [question |-> "Will protest count in USA exceed 100 by 2025/03/01?",
     timeframe |-> "2025/03/01",
     category |-> "social_events",
     metric |-> "protest_count",
     target_value |-> "100"]
CandS2 ==
    [question |-> "Will protest count in France exceed 200 by 2025/03/01?",
     timeframe |-> "2025/03/01",
     category |-> "social_events",
     metric |-> "protest_count",
     target_value |-> "200"]
CandS3 ==
    [question |-> "Will protest count in USA exceed 600 by 2025/03/01?",
     timeframe |-> "2025/03/01",
     category |-> "social_events",
     metric |-> "protest_count",
     target_value |-> "600"]
CandS4 ==
    [question |-> "Will protest count in USA exceed 100 by 2025/07/01?",
     timeframe |-> "2025/07/01",
     category |-> "social_events",
     metric |-> "protest_count",
     target_value |-> "100"]
CandS5 ==
    [question |-> "Will protest count in Germany exceed 100 by 2025/03/01?",
     timeframe |-> "2025/03/01",
     category |-> "social_events",
     metric |-> "protest_count",
     target_value |-> "100"]
CandS6 ==
    [question |-> "Will riots in USA or FRA exceed 150 by 2025/04/15?",
     timeframe |-> "2025/04/15",
     category |-> "social_events",
     metric |-> "riot_count",
     target_value |-> "150"]
CandF1 ==
    [question |-> "Will Apple stock price exceed 250 by 2025/03/31?",
     timeframe |-> "2025/03/31",
     category |-> "financial_market",
     metric |-> "price_target",
     target_value |-> "250"]
CandF2 ==
    [question |-> "Will MSFT.US volume exceed 500 by 2024/12/01?",
     timeframe |-> "2024/12/01",
     category |-> "financial_market",
     metric |-> "volume_target",
     target_value |-> "500"]
CandX1 ==
    [question |-> "Will the team win by 2025/03/31?",
     timeframe |-> "2025/03/31",
     category |-> "sports",
     metric |-> "wins",
     target_value |-> "3"]
CandX2 ==
    [question |-> "Will US GDP exceed 30000 by 2025/03/31?",
     timeframe |-> "2025/03/31",
     category |-> "economic_indicator",
     target_value |-> "30000"]
CandX3 ==
    [question |-> "Will US GDP exceed 30000 in Q1 2025?",
     timeframe |-> "Q1 2025",
     category |-> "economic_indicator",
     metric |-> "gdp",
     target_value |-> "30000"]
CandX4 ==
    [question |-> "Will unemployment reach 4% by 2025/02/15?",
     timeframe |-> "2025/02/15",
     category |-> "economic_indicator",
     metric |-> "unemployment_rate",
     target_value |-> "4%"]
CandX5 ==
    [question |-> "Will US GDP exceed 30000 by 2024/11/30?",
     timeframe |-> "2024/11/30",
     category |-> "economic_indicator",
     metric |-> "gdp",
     target_value |-> "30000"]

Candidates ==
    {CandE1, CandE2, CandE3, CandE4, CandE5, CandE6,
     CandE7, CandE8, CandK1, CandK2, CandK3, CandK4,
     CandK5, CandS1, CandS2, CandS3, CandS4, CandS5,
     CandS6, CandF1, CandF2, CandX1, CandX2, CandX3,
     CandX4, CandX5}

\* crypto_data.items(): the quotes in the order of the mapping
Quotes(btc_price) ==
    <<[symbol |-> "BTC", name |-> "Bitcoin", price |-> btc_price],
      [symbol |-> "ETH", name |-> "Ethereum", price |-> 3000]>>

(***************************************************************************)
(* json.loads: a recognizer of the JSON grammar as Python's decoder reads  *)
(* it.  JsonValue(s, i) is the position after the value that starts at     *)
(* position i, or 0 when there is none (JSONDecodeError).  The texts of    *)
(* the model hold no backslash and no control character.                   *)
(***************************************************************************)
IsSpace(c) == c \in {" ", "\t", "\n", "\r"}

RECURSIVE SkipSpaces(_, _)
SkipSpaces(s, i) == IF IsSpace(Char(s, i)) THEN SkipSpaces(s, i + 1) ELSE i

RECURSIVE SkipDigits(_, _)
SkipDigits(s, i) == IF Char(s, i) \in DigitSet THEN SkipDigits(s, i + 1) ELSE i

\* the end of the exponent whose digits start at g, or c when it has no digit
ExponentEnd(s, c, g) == IF SkipDigits(s, g) > g THEN SkipDigits(s, g) ELSE c

\* ([eE][-+]?\d+)? at position c
NumberExponent(s, c) ==
    IF Char(s, c) \in {"e", "E"}
    THEN ExponentEnd(s, c, IF Char(s, c + 1) \in {"+", "-"} THEN c + 2 ELSE c + 1)
    ELSE c

\* (\.\d+)? at position b
NumberFraction(s, b) ==
    IF Char(s, b) = "." /\ SkipDigits(s, b + 1) > b + 1 THEN SkipDigits(s, b + 1) ELSE b

\* the number whose integer part runs from a to b
NumberEnd(s, a, b) == IF b = a THEN 0 ELSE NumberExponent(s, NumberFraction(s, b))

\* (?:0|[1-9]\d*) at position a and what follows it
NumberFrom(s, a) == NumberEnd(s, a, IF Char(s, a) = "0" THEN a + 1 ELSE SkipDigits(s, a))

\* NUMBER_RE: (-?(?:0|[1-9]\d*))(\.\d+)?([eE][-+]?\d+)?
JsonNumber(s, i) == NumberFrom(s, IF Char(s, i) = "-" THEN i + 1 ELSE i)

\* a string: from the quote at i to the next quote
JsonString(s, i) ==
    IF Char(s, i) = "\"" /\ \E k \in (i + 1)..Len(s) : Char(s, k) = "\""
    THEN (CHOOSE k \in (i + 1)..Len(s) :
             Char(s, k) = "\"" /\ \A m \in (i + 1)..(k - 1) : Char(s, m) /= "\"") + 1
    ELSE 0

JsonLiteral(s, i) ==
    IF StartsAt(s, i, "null") \/ StartsAt(s, i, "true") THEN i + 4
    ELSE IF StartsAt(s, i, "false") THEN i + 5
    ELSE IF StartsAt(s, i, "NaN") THEN i + 3
    ELSE IF StartsAt(s, i, "Infinity") THEN i + 8
    ELSE IF StartsAt(s, i, "-Infinity") THEN i + 9
    ELSE 0

RECURSIVE JsonValue(_, _), JsonMembers(_, _), JsonElements(_, _)
RECURSIVE MembersKey(_, _), MembersColon(_, _), MembersValue(_, _), MembersSep(_, _)
RECURSIVE ElementsValue(_, _), ElementsSep(_, _)
\* the object or array whose first token is at j, close being "}" or "]"
JsonContainer(s, j, close) ==
    IF Char(s, j) = close THEN j + 1
    ELSE IF close = "}" THEN JsonMembers(s, j)
    ELSE JsonElements(s, j)

JsonValue(s, i) ==
    IF Char(s, i) = "{" THEN JsonContainer(s, SkipSpaces(s, i + 1), "}")
    ELSE IF Char(s, i) = "[" THEN JsonContainer(s, SkipSpaces(s, i + 1), "]")
    ELSE IF Char(s, i) = "\"" THEN JsonString(s, i)
    ELSE IF JsonLiteral(s, i) /= 0 THEN JsonLiteral(s, i)
    ELSE JsonNumber(s, i)

\* "key" : value [, "key" : value]* }
JsonMembers(s, i) == MembersKey(s, JsonString(s, i))

\* k is the position after the key, 0 without a key
MembersKey(s, k) == IF k = 0 THEN 0 ELSE MembersColon(s, SkipSpaces(s, k))

MembersColon(s, colon) ==
    IF Char(s, colon) /= ":" THEN 0
    ELSE MembersValue(s, JsonValue(s, SkipSpaces(s, colon + 1)))

\* v is the position after the value, 0 without a value
MembersValue(s, v) == IF v = 0 THEN 0 ELSE MembersSep(s, SkipSpaces(s, v))

MembersSep(s, sep) ==
    IF Char(s, sep) = "}" THEN sep + 1
    ELSE IF Char(s, sep) = "," THEN JsonMembers(s, SkipSpaces(s, sep + 1))
    ELSE 0

\* value [, value]* ]
JsonElements(s, i) == ElementsValue(s, JsonValue(s, i))

ElementsValue(s, v) == IF v = 0 THEN 0 ELSE ElementsSep(s, SkipSpaces(s, v))

ElementsSep(s, sep) ==
    IF Char(s, sep) = "]" THEN sep + 1
    ELSE IF Char(s, sep) = "," THEN JsonElements(s, SkipSpaces(s, sep + 1))
    ELSE 0

\* the value ends at e and only white space follows it
JsonEndOk(s, e) == e /= 0 /\ SkipSpaces(s, e) = Len(s) + 1

\* json.loads that raises for no text
JsonNeverRaises(s) == TRUE

\* json.loads(s) returns (raises no JSONDecodeError)
JsonOk(s) == JsonEndOk(s, JsonValue(s, SkipSpaces(s, 1)))

\* isinstance(json.loads(s), list)
JsonIsList(s) == JsonOk(s) /\ Char(s, SkipSpaces(s, 1)) = "["

RECURSIVE JsonCountFrom(_, _), CountSep(_, _)
JsonCountFrom(s, i) == CountSep(s, SkipSpaces(s, JsonValue(s, i)))

CountSep(s, sep) ==
    IF Char(s, sep) = "," THEN 1 + JsonCountFrom(s, SkipSpaces(s, sep + 1)) ELSE 1

\* the number of elements of the list whose first token is at j
ItemsFrom(s, j) == IF Char(s, j) = "]" THEN 0 ELSE JsonCountFrom(s, j)

\* len(questions) after lines 563-565, for a text with JsonOk
JsonItems(s) ==
    IF ~JsonIsList(s) THEN 1
    ELSE ItemsFrom(s, SkipSpaces(s, SkipSpaces(s, 1) + 1))

(***************************************************************************)
(* clean_json_content (lines 822-954), fixup by fixup.  Each re.sub is a   *)
(* scan from the left that, where the pattern matches, writes the          *)
(* replacement and goes on after the match, and otherwise copies one       *)
(* character.                                                              *)
(*                                                                         *)
(* The raw texts of the model are written over RawTokens, or are records   *)
(* with a question and a timeframe (DateTexts).  The fixups of lines       *)
(* 854-863 and 887-921 rewrite only text that holds a digit followed by k, *)
(* m, b or t, or one of the words target_value, category: no text of the   *)
(* model does, and these fixups are not part of the model.                 *)
(***************************************************************************)
\* content.find(c) + 1 and content.rfind(c) + 1: 0 when c does not occur
Find(s, c) ==
    IF \E i \in 1..Len(s) : Char(s, i) = c
    THEN CHOOSE i \in 1..Len(s) : Char(s, i) = c /\ \A j \in 1..(i - 1) : Char(s, j) /= c
    ELSE 0
RFind(s, c) ==
    IF \E i \in 1..Len(s) : Char(s, i) = c
    THEN CHOOSE i \in 1..Len(s) : Char(s, i) = c /\ \A j \in (i + 1)..Len(s) : Char(s, j) /= c
    ELSE 0

\* content.count(c)
Count(s, c) == Cardinality({i \in 1..Len(s) : Char(s, i) = c})

\* lines 834-836
BasicCleanup(s) == Replace(Replace(Replace(s, "\n", " "), "\\\"", "\""), "\\\\", "\\")

\* re.sub(r'"<sep>\s*"', '"<sep> "', s) for sep "," (line 839) and ":" (line 840)
SpacingAt(s, i, sep) == StartsAt(s, i, "\"" \o sep) /\ Char(s, SkipSpaces(s, i + 2)) = "\""
FixSpacingFrom(s, sep, i) == Slice(s, 1, i - 1) \o "\"" \o sep \o " \""
RECURSIVE FixSpacing(_, _)
FixSpacing(s, sep) ==
    IF FirstAt(s, LAMBDA t, k : SpacingAt(t, k, sep)) = 0 THEN s
    ELSE FixSpacingFrom(s, sep, FirstAt(s, LAMBDA t, k : SpacingAt(t, k, sep)))
         \o FixSpacing(Slice(s, SkipSpaces(s, FirstAt(s, LAMBDA t, k : SpacingAt(t, k, sep)) + 2) + 1,
                              Len(s)), sep)

\* lines 843-849
RemoveUnwanted(s) ==
    Replace(Replace(Replace(Replace(Replace(Replace(Replace(s,
        "$", ""), "[increase/decrease]", "increase"), "YoY", ""), "%", ""),
        "Trillion", "000000000000"), "Billion", "000000000"), "Million", "000000")

\* the position after \d+/\d+/\d+ at position i when a '"' follows it, else 0
NumericDateEnd(s, i) ==
    LET a == SkipDigits(s, i)
        b == SkipDigits(s, a + 1)
        c == SkipDigits(s, b + 1)
    IN IF /\ a > i /\ Char(s, a) = "/"
          /\ b > a + 1 /\ Char(s, b) = "/"
          /\ c > b + 1 /\ Char(s, c) = "\""
       THEN c ELSE 0

\* line 853: re.sub(r'(\d+)/\d+/\d+(?=")', r'\1', s)
NumericDateAt(s, i) == NumericDateEnd(s, i) > 0
RECURSIVE FixNumericDates(_)
FixNumericDates(s) ==
    IF FirstAt(s, NumericDateAt) = 0 THEN s
    ELSE Slice(s, 1, SkipDigits(s, FirstAt(s, NumericDateAt)) - 1)
         \o FixNumericDates(Slice(s, NumericDateEnd(s, FirstAt(s, NumericDateAt)), Len(s)))

\* \d{4}/\d{2}/\d{2} at position i
IsDateAt(s, i) ==
    /\ IsDigits(Slice(s, i, i + 3)) /\ Char(s, i + 4) = "/"
    /\ IsDigits(Slice(s, i + 5, i + 6)) /\ Char(s, i + 7) = "/"
    /\ IsDigits(Slice(s, i + 8, i + 9))
    /\ i + 9 <= Len(s)

\* line 868: re.search(r'by (\d{4}/\d{2}/\d{2})', s), "" when there is no match
QuestionDate(s) ==
    LET hits == {i \in 1..Len(s) : StartsAt(s, i, "by ") /\ IsDateAt(s, i + 3)}
    IN IF hits = {} THEN ""
       ELSE Slice(s, (CHOOSE i \in hits : \A j \in hits : i <= j) + 3,
                     (CHOOSE i \in hits : \A j \in hits : i <= j) + 12)

fallback_date == "2025/04/01"

\* the value patterns of lines 871-882, each between '"timeframe":\s*"' and '"'
TimeframeMatches(kind, v) ==
    CASE kind = "any" -> TRUE
      [] kind = "range" -> Contains(v, "to")
      [] kind = "by" -> /\ IsDigits(Slice(v, Len(v) - 3, Len(v))) /\ Len(v) >= 4
                        /\ \E i \in 1..Len(v) : StartsAt(v, i, "by ") /\ i + 3 <= Len(v) - 4
      [] kind = "full" -> Len(v) = 10 /\ IsDateAt(v, 1)
      [] kind = "year" -> Len(v) = 4 /\ IsDigits(v)
      [] kind = "month" -> /\ Len(v) = 7 /\ IsDigits(Slice(v, 1, 4)) /\ Char(v, 5) = "/"
                           /\ IsDigits(Slice(v, 6, 7))

\* the replacements of lines 871-882
TimeframeValue(kind, v, date) ==
    CASE kind = "any" -> date
      [] kind = "range" -> fallback_date
      [] kind = "by" -> fallback_date
      [] kind = "full" -> v
      [] kind = "year" -> v \o "/04/01"
      [] kind = "month" -> v \o "/01"

\* the position of the '"' that closes the value opening at position i, 0 when none does
ClosingQuote(s, i) ==
    IF \E e \in i..Len(s) : Char(s, e) = "\""
    THEN CHOOSE e \in i..Len(s) : Char(s, e) = "\"" /\ \A j \in i..(e - 1) : Char(s, j) /= "\""
    ELSE 0

\* re.sub(r'"timeframe":\s*"<kind>"', '"timeframe": "<value>"', s)
\* the value of the timeframe field whose key starts at position i, and the
\* position of its closing '"'
TimeframeEnd(s, i) == ClosingQuote(s, SkipSpaces(s, i + 12) + 1)
TimeframeText(s, i) == Slice(s, SkipSpaces(s, i + 12) + 1, TimeframeEnd(s, i) - 1)
TimeframeAt(s, i, kind) ==
    /\ StartsAt(s, i, "\"timeframe\":")
    /\ Char(s, SkipSpaces(s, i + 12)) = "\""
    /\ TimeframeEnd(s, i) > 0
    /\ TimeframeMatches(kind, TimeframeText(s, i))
TimeframeSubFrom(s, kind, date, i) ==
    Slice(s, 1, i - 1) \o "\"timeframe\": \""
    \o TimeframeValue(kind, TimeframeText(s, i), date) \o "\""

RECURSIVE TimeframeSub(_, _, _)
TimeframeSub(s, kind, date) ==
    IF FirstAt(s, LAMBDA t, k : TimeframeAt(t, k, kind)) = 0 THEN s
    ELSE TimeframeSubFrom(s, kind, date, FirstAt(s, LAMBDA t, k : TimeframeAt(t, k, kind)))
         \o TimeframeSub(Slice(s, TimeframeEnd(s, FirstAt(s, LAMBDA t, k : TimeframeAt(t, k, kind))) + 1,
                                Len(s)), kind, date)

\* line 884: re.sub(r'(\d{4})(\d{2})(\d{2})', r'\1/\2/\3', s)
EightDigitsAt(s, i) == i + 7 <= Len(s) /\ IsDigits(Slice(s, i, i + 7))
SplitEightDigitsFrom(s, i) ==
    Slice(s, 1, i + 3) \o "/" \o Slice(s, i + 4, i + 5) \o "/" \o Slice(s, i + 6, i + 7)
RECURSIVE SplitEightDigits(_)
SplitEightDigits(s) ==
    IF FirstAt(s, EightDigitsAt) = 0 THEN s
    ELSE SplitEightDigitsFrom(s, FirstAt(s, EightDigitsAt))
         \o SplitEightDigits(Slice(s, FirstAt(s, EightDigitsAt) + 8, Len(s)))

\* lines 877-884: no date in the question
DefaultDates(s) ==
    SplitEightDigits(
        TimeframeSub(TimeframeSub(TimeframeSub(TimeframeSub(TimeframeSub(
            Replace(s, "YYYY/MM/DD", fallback_date),
            "range", ""), "by", ""), "full", ""), "year", ""), "month", ""))

\* lines 866-884
FixDateFormats(s) ==
    IF ~Contains(s, "timeframe") THEN s
    ELSE IF QuestionDate(s) /= "" THEN TimeframeSub(s, "any", QuestionDate(s))
    ELSE DefaultDates(s)

\* the characters [",\{\}\[\]] that end a bare value
IsStructural(c) == c \in {"\"", ",", "{", "}", "[", "]"}

\* line 924: re.sub(r':\s*([^",\{\}\[\]\s][^",\{\}\[\]]*[^",\{\}\[\]\s])\s*([,}])', r': "\1"\2', s)
\* A match starts at a ':': the text is read from one ':' to the next.
RECURSIVE QuoteBareValues(_)
QuoteBareValues(s) ==
    IF Find(s, ":") = 0 THEN s
    ELSE
        LET c == Find(s, ":")
            j == SkipSpaces(s, c + 1)
            ends == {e \in j..Len(s) : IsStructural(Char(s, e))}
            e == IF ends = {} THEN 0 ELSE CHOOSE x \in ends : \A y \in ends : x <= y
            solid == {l \in j..(e - 1) : ~IsSpace(Char(s, l))}
            l == IF solid = {} THEN 0 ELSE CHOOSE x \in solid : \A y \in solid : y <= x
        IN
        IF e > j /\ Char(s, e) \in {",", "}"} /\ l > j
        THEN Slice(s, 1, c - 1) \o ": \"" \o Slice(s, j, l) \o "\"" \o Char(s, e)
             \o QuoteBareValues(Slice(s, e + 1, Len(s)))
        ELSE Slice(s, 1, c) \o QuoteBareValues(Slice(s, c + 1, Len(s)))

\* lines 927-930
CloseTruncated(s) ==
    LET t == IF Char(s, Len(s)) /= "}" THEN s \o "}" ELSE s IN
    IF Count(t, "{") > Count(t, "}") THEN t \o "}" ELSE t

\* line 933: re.sub(r',\s*}', '}', s)
TrailingCommaAt(s, i) == Char(s, i) = "," /\ Char(s, SkipSpaces(s, i + 1)) = "}"
RECURSIVE DropTrailingCommas(_)
DropTrailingCommas(s) ==
    IF FirstAt(s, TrailingCommaAt) = 0 THEN s
    ELSE Slice(s, 1, FirstAt(s, TrailingCommaAt) - 1) \o "}"
         \o DropTrailingCommas(Slice(s, SkipSpaces(s, FirstAt(s, TrailingCommaAt) + 1) + 1, Len(s)))

\* line 934: re.sub(r'\s+', ' ', s)
SpaceAt(s, i) == IsSpace(Char(s, i))
RECURSIVE CollapseSpaces(_)
CollapseSpaces(s) ==
    IF FirstAt(s, SpaceAt) = 0 THEN s
    ELSE Slice(s, 1, FirstAt(s, SpaceAt) - 1) \o " "
         \o CollapseSpaces(Slice(s, SkipSpaces(s, FirstAt(s, SpaceAt)), Len(s)))

\* lines 937-938
WrapArray(s) == IF StartsAt(s, 1, "{") THEN "[" \o s \o "]" ELSE s

\* line 945: re.sub(r'([^"]),\s*([^"\d{[])', r'\1, "\2', s).  When the character after
\* the blanks is one the class excludes, \s* gives back its last blank to group 2.
\* the character at j starts a bare word: it is none of ["\d{[]
OpensWord(s, j) ==
    j <= Len(s) /\ Char(s, j) \notin {"\"", "{", "["} /\ Char(s, j) \notin DigitSet
\* the position of group 2 for a match that starts at i, 0 when there is no match
WordAfterComma(s, i) ==
    IF Char(s, i) = "\"" \/ Char(s, i + 1) /= "," THEN 0
    ELSE IF OpensWord(s, SkipSpaces(s, i + 2)) THEN SkipSpaces(s, i + 2)
    ELSE IF SkipSpaces(s, i + 2) > i + 2 THEN SkipSpaces(s, i + 2) - 1
    ELSE 0
CommaAt(s, i) == WordAfterComma(s, i) > 0
InsertQuotesFrom(s, i) == Slice(s, 1, i) \o ", \"" \o Char(s, WordAfterComma(s, i))
RECURSIVE InsertQuotes(_)
InsertQuotes(s) ==
    IF FirstAt(s, CommaAt) = 0 THEN s
    ELSE InsertQuotesFrom(s, FirstAt(s, CommaAt))
         \o InsertQuotes(Slice(s, WordAfterComma(s, FirstAt(s, CommaAt)) + 1, Len(s)))

\* line 946: re.sub(r'([^"}]),\s*}', r'\1}', s)
CommaBeforeBraceAt(s, i) ==
    Char(s, i) \notin {"\"", "}"} /\ Char(s, i + 1) = "," /\ Char(s, SkipSpaces(s, i + 2)) = "}"
RECURSIVE DropCommaBeforeBrace(_)
DropCommaBeforeBrace(s) ==
    IF FirstAt(s, CommaBeforeBraceAt) = 0 THEN s
    ELSE Slice(s, 1, FirstAt(s, CommaBeforeBraceAt)) \o "}"
         \o DropCommaBeforeBrace(Slice(s, SkipSpaces(s, FirstAt(s, CommaBeforeBraceAt) + 2) + 1, Len(s)))

\* lines 945-948: the cleanup of the text that json.loads refused
AggressiveCleanup(s) ==
    FixSpacing(FixSpacing(DropCommaBeforeBrace(InsertQuotes(s)), ","), ":")

\* lines 941-950: the verification, and what is returned after it
VerifyAndReturn(s) == IF JsonOk(s) THEN s ELSE AggressiveCleanup(s)

\* content = f(content): the text that a statement assigns is computed once,
\* before the next statement reads it
Assign(content, f(_)) == CHOOSE result \in {f(text) : text \in {content}} : TRUE

\* lines 834-840
StructureMarkers(s) ==
    Assign(Assign(BasicCleanup(s), LAMBDA t : FixSpacing(t, ",")), LAMBDA t : FixSpacing(t, ":"))

\* lines 843-884
Fixups(s) == Assign(Assign(RemoveUnwanted(s), FixNumericDates), FixDateFormats)

\* lines 924-938
Closing(s) ==
    Assign(Assign(Assign(Assign(QuoteBareValues(s), CloseTruncated), DropTrailingCommas),
                  CollapseSpaces), WrapArray)

clean_json_content(content) ==
    IF Find(content, "{") = 0 \/ RFind(content, "}") = 0 THEN "[]"
    ELSE
        Assign(Assign(Assign(Assign(Slice(content, Find(content, "{"), RFind(content, "}")),
            StructureMarkers), Fixups), Closing), VerifyAndReturn)

RawTokens == {"{", "}", "\"a\"", ":", ",", "7", "xy", " "}
MaxRawTokens == 5

RECURSIVE Join(_)
Join(ts) == IF ts = <<>> THEN "" ELSE Head(ts) \o Join(Tail(ts))

RawTexts == UNION {{Join(ts) : ts \in [1..n -> RawTokens]} : n \in 0..MaxRawTokens}

\* a financial_market record cut off inside the string of its last field, and
\* the raw texts that end with it.  Lines 825-831 keep the text from the first
\* '{' to the last '}', which ends before the cut-off record: the fixups of
\* lines 852-921 meet none of its words.
TruncatedRecord ==
    "{\"question\": \"Will AAPL.US price exceed 200 by 2025/03/31?\", "
    \o "\"timeframe\": \"2025/03/31\", \"category\": \"financial_market\", "
    \o "\"metric\": \"price_target\", \"target_value\": 200, "
    \o "\"measurement_source\": \""
MaxPrefixTokens == 2
TruncatedTexts ==
    UNION {{Join(ts) \o TruncatedRecord : ts \in [1..n -> RawTokens \cup {"["}]}
              : n \in 0..MaxPrefixTokens}

\* records with a question and a timeframe, in either order: the question with
\* and without a date after "by", the timeframe a full date, a year, a month, a
\* placeholder, a range, a phrase, or a date without separators
DateQuestions == {"Will X happen?", "Will X happen by 2025/06/01?"}
CanonicalTimeframes == {"2025/03/31", "2025/04/01"}
OtherTimeframes ==
    {"2025", "2025/03", "YYYY/MM/DD", "2025/01/01 to 2025/03/31", "by end of 2025", "20250331"}
DateText(q, t, first) ==
    IF first = "question"
    THEN "{\"question\": \"" \o q \o "\", \"timeframe\": \"" \o t \o "\"}"
    ELSE "{\"timeframe\": \"" \o t \o "\", \"question\": \"" \o q \o "\"}"
DateTexts ==
    {DateText(q, t, first) : q \in DateQuestions,
                             t \in CanonicalTimeframes \cup OtherTimeframes,
                             first \in {"question", "timeframe"}}

(***************************************************************************)
(* generate_questions_pool (lines 453-632).                                *)
(*                                                                         *)
(* A run is started from one of PoolInputs.  A response of the model is a  *)
(* shape (a raw text over RawTokens: clean_json_content and json.loads     *)
(* decide from it whether the iteration has a list to read and how many    *)
(* items the list has) and the fields of its items (Candidates).           *)
(***************************************************************************)
MaxQuestions == 2
\* the largest N of the runs of main.py without countries
MaxMainQuestions == 2
\* stands for max_attempts = 3000 (line 488): the cap is scaled down so that
\* runs that exhaust it are among the runs checked
max_attempts == 2
max_retries == 3
\* the pool_size that both callers pass (main.py line 152, question_generator.py line 61)
default_pool_size == 200

CryptoOptions == {<<>>, Quotes(90000), Quotes(40000)}
CountryOptions == {<<>>, <<"USA", "FRA">>}

\* the category list that generate_questions builds (question_generator.py, lines 26-35)
GeneratorCategories(fred, countries, crypto, market) ==
    (IF fred THEN <<"economic_indicator">> ELSE <<>>)
    \o (IF countries /= <<>> THEN <<"social_events">> ELSE <<>>)
    \o (IF crypto /= <<>> THEN <<"cryptocurrency">> ELSE <<>>)
    \o (IF market THEN <<"financial_market">> ELSE <<>>)

\* the category list of main.py (line 153)
MainCategories == <<"economic_indicator", "social_events", "cryptocurrency", "financial_market">>

PoolInput(n, cats, crypto, countries) ==
    [num |-> n, cats |-> cats, crypto |-> crypto, countries |-> countries]

\* the calls of generate_questions_pool with at most maxn questions asked for
Inputs(maxn) ==
    \* one data source, through generate_questions
    {PoolInput(n, GeneratorCategories(TRUE, <<>>, <<>>, FALSE), <<>>, <<>>) : n \in 0..maxn}
    \cup {PoolInput(n, GeneratorCategories(FALSE, co, <<>>, FALSE), <<>>, co) :
            n \in 0..maxn, co \in CountryOptions \ {<<>>}}
    \cup {PoolInput(n, GeneratorCategories(FALSE, <<>>, cr, FALSE), cr, <<>>) :
            n \in 0..maxn, cr \in CryptoOptions \ {<<>>}}
    \cup {PoolInput(n, GeneratorCategories(FALSE, <<>>, <<>>, TRUE), <<>>, <<>>) : n \in 0..maxn}
    \* conflict data and crypto quotes
    \cup {PoolInput(n, GeneratorCategories(FALSE, co, cr, FALSE), cr, co) :
            n \in 0..maxn, co \in CountryOptions \ {<<>>}, cr \in {Quotes(90000)}}
    \* main.py with countries
    \cup {PoolInput(n, MainCategories, Quotes(90000), co) :
            n \in 0..maxn, co \in CountryOptions \ {<<>>}}
    \* a direct call for social_events alone, without countries
    \cup {PoolInput(1, <<"social_events">>, <<>>, <<>>)}

\* main.py without countries, with and without crypto quotes
MainInputs(maxn) ==
    {PoolInput(n, MainCategories, cr, <<>>) : n \in 0..maxn, cr \in {<<>>, Quotes(90000)}}

PoolInputs == Inputs(MaxQuestions) \cup MainInputs(MaxMainQuestions)

\* shapes of a response: no object, an object json.loads refuses, one object, two objects
ResponseShapes == {"xy", "{\"a\" \"a\"}", "{\"a\":7}", "{\"a\":7},{\"a\":7}"}

Range(f) == {f[i] : i \in DOMAIN f}

\* required_categories.remove('social_events') (line 465)
RECURSIVE Remove(_, _)
Remove(cats, c) ==
    IF cats = <<>> THEN <<>>
    ELSE IF Head(cats) = c THEN Tail(cats)
    ELSE <<Head(cats)>> \o Remove(Tail(cats), c)

\* lines 461-466
CategoriesAfterCountryCheck(cats, countries) ==
    IF countries = <<>> /\ "social_events" \in Range(cats) THEN Remove(cats, "social_events") ELSE cats

\* line 476
PoolSize(n) == IF default_pool_size >= n * 4 THEN default_pool_size ELSE n * 4

\* quotas from a target that is rounded up instead of down
PoolTargetsRoundedUp(n, cats) == [c \in Range(cats) |-> ((n + Len(cats) - 1) \div Len(cats)) * 4]

\* lines 479-483
PoolTargets(n, cats) == [c \in Range(cats) |-> (n \div Len(cats)) * 4]

\* the validator's verdict on every candidate, for every quote list and country list
Validated ==
    [cr \in CryptoOptions |-> [co \in CountryOptions |->
        [c \in Candidates |-> validate_single_question(c, cr, co)]]]

\* every record the validator accepts, for some quote list and country list
AcceptedByValidator ==
    UNION {{Validated[cr][co][c].q : c \in {x \in Candidates : Validated[cr][co][x].ok}} :
            cr \in CryptoOptions, co \in CountryOptions}

\* lines 579-584
QuestionKey(q) == <<q.category, q.metric, q.timeframe, StrFloat(q.target_value)>>

\* line 587 without the test: every key is taken for new
AlwaysNewKey(key, used) == TRUE

\* line 587
IsNewKey(key, used) == key \notin used

\* lines 502-506 and 599-603
TargetsReached(counts, targets) == \A c \in DOMAIN counts : counts[c] >= targets[c]

\* a category that always takes one more record
QuotaUnchecked(counts, targets, c) == TRUE

\* line 577
BelowTarget(counts, targets, c) == counts[c] < targets[c]

\* a pool that takes the new record at its front
AddQuestionFirst(st, q) ==
    [pool |-> <<q>> \o st.pool,
     used |-> st.used \cup {QuestionKey(q)},
     counts |-> [st.counts EXCEPT ![q.category] = @ + 1]]

\* lines 587-589
AddQuestion(st, q) ==
    [pool |-> Append(st.pool, q),
     used |-> st.used \cup {QuestionKey(q)},
     counts |-> [st.counts EXCEPT ![q.category] = @ + 1]]

\* lines 567-607: the for loop over the parsed items; st is the pool state it updates
RECURSIVE ProcessQuestions(_, _, _, _)
ProcessQuestions(qs, st, verdict, targets) ==
    IF qs = <<>> THEN st
    ELSE
        LET r == verdict[Head(qs)]
            q == r.q
            accept == /\ r.ok
                      /\ q.category \in DOMAIN st.counts
                      /\ BelowTarget(st.counts, targets, q.category)
                      /\ IsNewKey(QuestionKey(q), st.used)
            st2 == AddQuestion(st, q)
        IN
        IF ~accept THEN ProcessQuestions(Tail(qs), st, verdict, targets)
        ELSE IF TargetsReached(st2.counts, targets) THEN st2
        ELSE ProcessQuestions(Tail(qs), st2, verdict, targets)

pool_idle ==
    /\ num_questions = 0 /\ required_categories = <<>> /\ crypto_data = <<>>
    /\ allowed_countries = <<>> /\ pool_targets = <<>> /\ question_pool = <<>>
    /\ used_questions = {} /\ total_attempts = 0 /\ category_counts = <<>>
    /\ target_category = "" /\ retry_count = 0 /\ response = "None" /\ slept = <<>>
    /\ pc = "idle"
sel_idle ==
    /\ sel_pool = <<>> /\ sel_num = 0 /\ sel_categories = <<>> /\ selected = <<>>
    /\ sel_used = {} /\ extra = 0 /\ cat_idx = 0 /\ sel_result = <<>> /\ sel_pc = "idle"
clean_idle == raw = "" /\ cleaned = "" /\ clean_pc = "idle"
par_idle ==
    /\ par_num = 0 /\ par_crypto = <<>> /\ probe = "none" /\ tasks = <<>>
    /\ calls = 0 /\ par_result = <<>> /\ par_pc = "idle"
div_idle ==
    /\ div_questions = <<>> /\ div_count = 0 /\ div_order = 1 /\ div_matrix = <<>>
    /\ div_result = <<>> /\ div_pc = "idle"
val_unset == [ok |-> FALSE, q |-> <<>>]
val_idle ==
    /\ val_record = <<>> /\ val_crypto = <<>> /\ val_countries = <<>>
    /\ val_once = val_unset /\ val_twice = val_unset /\ val_strict = FALSE /\ val_pc = "idle"
pure_idle == div_idle /\ val_idle

\* lines 455-497: the state when the while loop is first reached (or line 473 returns)
PoolStart(inputs) ==
    /\ \E in \in inputs :
        /\ num_questions = in.num
        /\ crypto_data = in.crypto
        /\ allowed_countries = in.countries
        /\ required_categories = CategoriesAfterCountryCheck(in.cats, in.countries)
    /\ pool_targets = PoolTargets(num_questions, required_categories)
    /\ question_pool = <<>>
    /\ used_questions = {}
    /\ total_attempts = 0
    /\ category_counts = [c \in Range(required_categories) |-> 0]
    /\ target_category = ""
    /\ retry_count = 0
    /\ response = "None"
    /\ slept = <<>>
    /\ pc = IF required_categories = <<>> THEN "returned" ELSE "while"
    /\ sel_idle
    /\ clean_idle
    /\ par_idle
    /\ pure_idle

PoolInit == PoolStart(PoolInputs)

\* line 499
LoopCondition == Len(question_pool) < PoolSize(num_questions) /\ total_attempts < max_attempts

\* line 499: the loop condition fails, line 625 is next
LoopExit ==
    /\ pc = "while"
    /\ ~LoopCondition
    /\ pc' = "select"
    /\ UNCHANGED <<num_questions, required_categories, crypto_data, allowed_countries,
                   pool_targets, question_pool, used_questions, total_attempts,
                   category_counts, target_category, retry_count, response, slept>>
    /\ UNCHANGED <<sel_vars, clean_vars, par_vars, pure_vars>>

\* lines 501-511: every category has its quota, break
AllTargetsReached ==
    /\ pc = "while"
    /\ LoopCondition
    /\ TargetsReached(category_counts, pool_targets)
    /\ pc' = "select"
    /\ UNCHANGED <<num_questions, required_categories, crypto_data, allowed_countries,
                   pool_targets, question_pool, used_questions, total_attempts,
                   category_counts, target_category, retry_count, response, slept>>
    /\ UNCHANGED <<sel_vars, clean_vars, par_vars, pure_vars>>

\* every required category, whatever its count
AnyCategory == Range(required_categories)

\* lines 514-517
NeededCategories ==
    {c \in Range(required_categories) : BelowTarget(category_counts, pool_targets, c)}

\* lines 513-531: random.choice(needed_categories), the prompt, the retry loop is entered
PickCategory ==
    /\ pc = "while"
    /\ LoopCondition
    /\ ~TargetsReached(category_counts, pool_targets)
    /\ \E c \in NeededCategories : target_category' = c
    /\ retry_count' = 0
    /\ response' = "None"
    /\ slept' = <<>>
    /\ pc' = "chat"
    /\ UNCHANGED <<num_questions, required_categories, crypto_data, allowed_countries,
                   pool_targets, question_pool, used_questions, total_attempts, category_counts>>
    /\ UNCHANGED <<sel_vars, clean_vars, par_vars, pure_vars>>

\* lines 548-554: ollama.chat raises and the call is tried again
ChatRetry ==
    /\ pc = "chat"
    /\ retry_count + 1 < max_retries
    /\ retry_count' = retry_count + 1
    /\ slept' = Append(slept, 2 * (retry_count + 1))
    /\ UNCHANGED <<num_questions, required_categories, crypto_data, allowed_countries,
                   pool_targets, question_pool, used_questions, total_attempts,
                   category_counts, target_category, response, pc>>
    /\ UNCHANGED <<sel_vars, clean_vars, par_vars, pure_vars>>

\* lines 548-552 and 613-618: ollama.chat raises for the last time, the exception
\* reaches the handler of line 613 and the attempt is counted
ChatGiveUp ==
    /\ pc = "chat"
    /\ retry_count + 1 >= max_retries
    /\ retry_count' = retry_count + 1
    /\ slept' = Append(slept, 1)
    /\ total_attempts' = total_attempts + 1
    /\ pc' = "while"
    /\ UNCHANGED <<num_questions, required_categories, crypto_data, allowed_countries,
                   pool_targets, question_pool, used_questions, category_counts,
                   target_category, response>>
    /\ UNCHANGED <<sel_vars, clean_vars, par_vars, pure_vars>>

\* lines 532-557: ollama.chat returns a response that is empty, continue
NoResponse ==
    /\ pc = "chat"
    /\ pc' = "while"
    /\ UNCHANGED <<num_questions, required_categories, crypto_data, allowed_countries,
                   pool_targets, question_pool, used_questions, total_attempts,
                   category_counts, target_category, retry_count, response, slept>>
    /\ UNCHANGED <<sel_vars, clean_vars, par_vars, pure_vars>>

\* lines 559-563 and 609-611: json.loads refuses the cleaned text, continue
JsonError ==
    /\ pc = "chat"
    /\ \E shape \in ResponseShapes :
        /\ ~JsonOk(clean_json_content(shape))
        /\ response' = shape
    /\ pc' = "while"
    /\ UNCHANGED <<num_questions, required_categories, crypto_data, allowed_countries,
                   pool_targets, question_pool, used_questions, total_attempts,
                   category_counts, target_category, retry_count, slept>>
    /\ UNCHANGED <<sel_vars, clean_vars, par_vars, pure_vars>>

\* lines 559-607 and 618: the cleaned text is a list, its items are validated and
\* the accepted ones added; the attempt is counted
ResponseOf(shapes, candidates) ==
    /\ pc = "chat"
    /\ \E shape \in shapes :
        /\ JsonOk(clean_json_content(shape))
        /\ response' = shape
        /\ \E qs \in [1..JsonItems(clean_json_content(shape)) -> candidates] :
            LET st == ProcessQuestions(qs,
                        [pool |-> question_pool, used |-> used_questions, counts |-> category_counts],
                        Validated[crypto_data][allowed_countries], pool_targets)
            IN /\ question_pool' = st.pool
               /\ used_questions' = st.used
               /\ category_counts' = st.counts
    /\ total_attempts' = total_attempts + 1
    /\ pc' = "while"
    /\ UNCHANGED <<num_questions, required_categories, crypto_data, allowed_countries,
                   pool_targets, target_category, retry_count, slept>>
    /\ UNCHANGED <<sel_vars, clean_vars, par_vars, pure_vars>>

ProcessResponse == ResponseOf(ResponseShapes, Candidates)

PoolNext ==
    \/ LoopExit
    \/ AllTargetsReached
    \/ PickCategory
    \/ ChatRetry
    \/ ChatGiveUp
    \/ JsonError
    \/ NoResponse
    \/ ProcessResponse

Spec == PoolInit /\ [][PoolNext]_vars

(***************************************************************************)
(* generate_questions_pool called by generate_questions with economic data *)
(* and market data (question_generator.py, lines 26-35 and 64-73), the     *)
(* responses holding one or four economic_indicator records: the calls in  *)
(* which a category is at its quota while the other is not.                *)
(***************************************************************************)
QuotaInputs ==
    {PoolInput(n, GeneratorCategories(TRUE, <<>>, <<>>, TRUE), <<>>, <<>>) : n \in 1..MaxQuestions}

QuotaShapes == {"{\"a\":7}", "{\"a\":7},{\"a\":7},{\"a\":7},{\"a\":7}"}

QuotaCandidates == {CandE1, CandE2, CandE3, CandE4, CandE6}

QuotaInit == PoolStart(QuotaInputs)

QuotaResponse == ResponseOf(QuotaShapes, QuotaCandidates)

QuotaNext ==
    \/ LoopExit
    \/ AllTargetsReached
    \/ PickCategory
    \/ ChatRetry
    \/ ChatGiveUp
    \/ JsonError
    \/ NoResponse
    \/ QuotaResponse

QuotaSpec == QuotaInit /\ [][QuotaNext]_vars

(***************************************************************************)
(* calculate_question_diversity (lines 781-820).                           *)
(***************************************************************************)
IsWordChar(c) == c \in LowerSet \/ c \in UpperSet \/ c \in DigitSet \/ c = "_"

RECURSIVE WordEnd(_, _)
WordEnd(s, i) == IF i <= Len(s) /\ IsWordChar(Char(s, i)) THEN WordEnd(s, i + 1) ELSE i

IsCapitals(w) == \A i \in 1..Len(w) : Char(w, i) \in UpperSet

\* re.findall(r'\b[A-Z]{2,}\b', text): the words of two or more capitals, in text order
RECURSIVE EntitiesFrom(_, _)
EntitiesFrom(s, i) ==
    IF i > Len(s) THEN <<>>
    ELSE IF ~IsWordChar(Char(s, i)) THEN EntitiesFrom(s, i + 1)
    ELSE
        LET e == WordEnd(s, i)
            w == Slice(s, i, e - 1)
        IN (IF Len(w) >= 2 /\ IsCapitals(w) THEN <<w>> ELSE <<>>) \o EntitiesFrom(s, e)

Entities(s) == EntitiesFrom(s, 1)

\* the 3-letter entities of a question, each once, in text order
RECURSIVE Distinct(_)
Distinct(seq) ==
    IF seq = <<>> THEN <<>>
    ELSE LET front == Distinct(SubSeq(seq, 1, Len(seq) - 1))
         IN IF seq[Len(seq)] \in Range(front) THEN front ELSE Append(front, seq[Len(seq)])

CountryTokens(s) == Distinct(SelectSeq(Entities(s), LAMBDA w : Len(w) = 3))

\* how many 3-letter entities a question of the model has at most
MaxCountryTokens == 2

\* next((c for c in entities if len(c) == 3), ''): the first 3-letter entity in
\* the iteration order of a set of strings, which the hash seed of the process
\* decides; order says which one comes first
Country(s, order) ==
    LET toks == CountryTokens(s)
    IN IF toks = <<>> THEN "" ELSE toks[((order - 1) % Len(toks)) + 1]

Abs(x) == IF x < 0 THEN 0 - x ELSE x
Max(x, y) == IF x >= y THEN x ELSE y

\* lines 799-805: abs(val1 - val2) / max(val1, val2) > 0.2; a zero maximum is
\* a ZeroDivisionError, which is passed over
ValuesDiffer(v1, v2) ==
    IF Max(v1, v2) > 0 THEN 5 * Abs(v1 - v2) > Max(v1, v2)
    ELSE IF Max(v1, v2) = 0 THEN FALSE
    ELSE 5 * Abs(v1 - v2) < Max(v1, v2)

\* lines 790-796
DatesDiffer(t1, t2) == DateOk(t1) /\ DateOk(t2) /\ Abs(DateOf(t1) - DateOf(t2)) > 30

calculate_question_diversity(q1, q2, order) ==
    (IF q1.metric /= q2.metric THEN 1 ELSE 0)
    + (IF DatesDiffer(q1.timeframe, q2.timeframe) THEN 1 ELSE 0)
    + (IF ValuesDiffer(q1.target_value, q2.target_value) THEN 1 ELSE 0)
    + (IF Range(Entities(q1.question)) \cap Range(Entities(q2.question)) = {} THEN 1 ELSE 0)
    + (IF /\ q1.category = "social_events" /\ q2.category = "social_events"
          /\ Country(q1.question, order) /= Country(q2.question, order)
       THEN 2 ELSE 0)

(***************************************************************************)
(* select_diverse_category_questions (lines 634-673).                      *)
(***************************************************************************)
\* inflation questions with a negative and with a zero target value
SignedCandidate(value) ==
    [CandE4 EXCEPT !.question = "Will inflation reach " \o value \o " by 2025/05/01?",
                   !.target_value = value]
SignedCandidates == {SignedCandidate(v) : v \in {"-10", "-100", "0"}}

\* what the validator makes of the ones it accepts
SignedRecords ==
    {validate_single_question(c, <<>>, <<>>).q :
        c \in {x \in SignedCandidates : validate_single_question(x, <<>>, <<>>).ok}}

\* the records that select_diverse_category_questions is given
DivRecords == AcceptedByValidator \cup SignedRecords

\* lines 641-647: the scores of all pairs of records, for each iteration order
diversity_matrix ==
    [order \in 1..MaxCountryTokens |->
        [q1 \in DivRecords |->
            [q2 \in DivRecords |-> calculate_question_diversity(q1, q2, order)]]]

\* min(...) of a non-empty collection of numbers
Min(S) == CHOOSE m \in S : \A d \in S : m <= d

\* lines 659-663: the minimum distance of question i to the selected ones
MinDistance(questions, i, indices, order) ==
    Min({diversity_matrix[order][questions[i]][questions[j]] : j \in Range(indices)})

\* a scan that lets a later question with the same minimum distance win
BetterOrSame(i, m, st) == IF m >= st.max_min THEN [best_idx |-> i, max_min |-> m] ELSE st

\* lines 664-666: question i replaces the best one when its minimum distance is larger
Better(i, m, st) == IF m > st.max_min THEN [best_idx |-> i, max_min |-> m] ELSE st

\* lines 651-668: the scan for the best unchosen question; best_idx = 0 stands for -1
RECURSIVE BestIndex(_, _, _, _, _)
BestIndex(questions, indices, i, st, order) ==
    IF i > Len(questions) THEN st.best_idx
    ELSE BestIndex(questions, indices, i + 1,
                   IF i \in Range(indices) THEN st
                   ELSE Better(i, MinDistance(questions, i, indices, order), st),
                   order)

\* lines 649-671
RECURSIVE SelectIndices(_, _, _, _)
SelectIndices(questions, count, indices, order) ==
    IF ~(Len(indices) < count /\ Len(indices) < Len(questions)) THEN indices
    ELSE SelectIndices(questions, count,
                       Append(indices, BestIndex(questions, indices, 1,
                                                 [best_idx |-> 0, max_min |-> -1], order)),
                       order)

\* line 673: [questions[i] for i in selected_indices]
QuestionsAt(questions, indices) == [k \in 1..Len(indices) |-> questions[indices[k]]]

select_diverse_category_questions(questions, count, order) ==
    IF questions = <<>> THEN <<>>
    ELSE QuestionsAt(questions, SelectIndices(questions, count, <<1>>, order))

(***************************************************************************)
(* select_diverse_category_questions applied to every list of at most      *)
(* MaxDivLen records and every count up to MaxDivCount.                    *)
(***************************************************************************)
MaxDivLen == 3
MaxDivCount == 3

DivLists == UNION {[1..n -> DivRecords] : n \in 0..MaxDivLen}

DivInit ==
    /\ div_questions \in DivLists
    /\ div_count \in 0..MaxDivCount
    /\ div_order \in 1..MaxCountryTokens
    /\ div_matrix = <<>>
    /\ div_result = <<>>
    /\ div_pc = "called"
    /\ pool_idle
    /\ sel_idle
    /\ clean_idle
    /\ par_idle
    /\ val_idle

\* lines 640-647
MatrixOf(questions, order) ==
    [i \in 1..Len(questions) |->
        [j \in 1..Len(questions) |-> diversity_matrix[order][questions[i]][questions[j]]]]

\* lines 634-673
SelectDiverse ==
    /\ div_pc = "called"
    /\ div_matrix' = MatrixOf(div_questions, div_order)
    /\ div_result' = select_diverse_category_questions(div_questions, div_count, div_order)
    /\ div_pc' = "returned"
    /\ UNCHANGED <<div_questions, div_count, div_order>>
    /\ UNCHANGED <<pool_vars, sel_vars, clean_vars, par_vars, val_vars>>

DivNext == SelectDiverse

DivSpec == DivInit /\ [][DivNext]_vars

(***************************************************************************)
(* select_diverse_questions (lines 675-779), called at line 629 with the   *)
(* pool that the accumulation loop has built.                              *)
(***************************************************************************)
MaxSelect == 3
MaxPool == 3

SelInputs == Inputs(MaxSelect) \cup MainInputs(MaxSelect)

\* the records the accumulation loop can accept for an input
AcceptedRecords(in) ==
    LET cats == CategoriesAfterCountryCheck(in.cats, in.countries)
        verdict == Validated[in.crypto][in.countries]
    IN {verdict[c].q : c \in {x \in Candidates : /\ verdict[x].ok
                                                 /\ verdict[x].q.category \in Range(cats)}}

CountOf(pool, category) == Cardinality({i \in DOMAIN pool : pool[i].category = category})

\* the pools of at most MaxPool records that the accumulation loop can hand over
\* for an input: accepted records, distinct keys, no category above its quota
AccumulatedPools(in) ==
    LET cats == CategoriesAfterCountryCheck(in.cats, in.countries)
        targets == PoolTargets(in.num, cats)
        recs == AcceptedRecords(in)
    IN {pool \in UNION {[1..n -> recs] : n \in 0..MaxPool} :
            /\ \A i, j \in DOMAIN pool : QuestionKey(pool[i]) = QuestionKey(pool[j]) => i = j
            /\ \A c \in Range(cats) : CountOf(pool, c) <= targets[c]}

\* lines 704-710 and 755-766
question_key(q) ==
    <<q.category, q.metric, q.timeframe, StrFloat(q.target_value), Lower(q.question)>>

\* the key of every record of the model
ExtendedKeys == [q \in AcceptedByValidator |-> question_key(q)]
ExtendedKey(q) == ExtendedKeys[q]

\* lines 716-725: the record is passed over by the sanity caps
SanityRejects(q, category) ==
    IF category = "cryptocurrency" THEN
        \/ Contains(q.question, "ATOM") /\ q.target_value > 20
        \/ Contains(q.question, "BTC") /\ q.target_value > 200000
        \/ Contains(q.question, "DOT") /\ q.target_value > 20
    ELSE IF category = "social_events" THEN ~(50 <= q.target_value /\ q.target_value <= 500)
    ELSE FALSE

\* lines 701-731: the for loop that filters one category; st = [filtered, used]
RECURSIVE FilterQuestions(_, _, _)
FilterQuestions(qs, st, category) ==
    IF qs = <<>> THEN st
    ELSE IF ExtendedKey(Head(qs)) \in st.used \/ SanityRejects(Head(qs), category)
        THEN FilterQuestions(Tail(qs), st, category)
    ELSE FilterQuestions(Tail(qs),
                         [filtered |-> Append(st.filtered, Head(qs)),
                          used |-> st.used \cup {ExtendedKey(Head(qs))}],
                         category)

\* questions_by_category[category] (lines 678-680), <<>> for a category without records
QuestionsOf(pool, category) == SelectSeq(pool, LAMBDA q : q.category = category)

\* lines 754-758 without the two tests: every record of the category remains
RemainingUnchecked(pool, category, chosen, used) == QuestionsOf(pool, category)

\* lines 754-758
Remaining(pool, category, chosen, used) ==
    SelectSeq(QuestionsOf(pool, category),
              LAMBDA q : q \notin Range(chosen) /\ ExtendedKey(q) \notin used)

\* selected[:num_questions] (line 779)
ReturnSlice(chosen, n) == IF Len(chosen) <= n THEN chosen ELSE SubSeq(chosen, 1, n)

\* lines 677-692
SelInit ==
    /\ \E in \in SelInputs :
        /\ CategoriesAfterCountryCheck(in.cats, in.countries) /= <<>>
        /\ sel_categories = CategoriesAfterCountryCheck(in.cats, in.countries)
        /\ sel_num = in.num
        /\ sel_pool \in AccumulatedPools(in)
    /\ selected = <<>>
    /\ sel_used = {}
    /\ extra = sel_num % Len(sel_categories)
    /\ cat_idx = 1
    /\ sel_result = <<>>
    /\ sel_pc = "greedy"
    /\ pool_idle
    /\ clean_idle
    /\ par_idle
    /\ pure_idle

\* lines 695-697: the category has no record in the pool, continue
GreedySkip ==
    /\ sel_pc = "greedy"
    /\ cat_idx <= Len(sel_categories)
    /\ QuestionsOf(sel_pool, sel_categories[cat_idx]) = <<>>
    /\ cat_idx' = cat_idx + 1
    /\ UNCHANGED <<sel_pool, sel_num, sel_categories, selected, sel_used, extra, sel_result, sel_pc>>
    /\ UNCHANGED <<pool_vars, clean_vars, par_vars, pure_vars>>

\* lines 688 and 735: target_per_category, and one more while extra is not used up
TargetCount == (sel_num \div Len(sel_categories)) + (IF extra > 0 THEN 1 ELSE 0)

\* lines 695-743: one category is filtered and its most diverse questions chosen
GreedySelect ==
    /\ sel_pc = "greedy"
    /\ cat_idx <= Len(sel_categories)
    /\ QuestionsOf(sel_pool, sel_categories[cat_idx]) /= <<>>
    /\ LET category == sel_categories[cat_idx]
           st == FilterQuestions(QuestionsOf(sel_pool, category),
                                 [filtered |-> <<>>, used |-> sel_used], category)
       IN /\ \E order \in 1..MaxCountryTokens :
                selected' = selected \o select_diverse_category_questions(st.filtered, TargetCount, order)
          /\ sel_used' = st.used
    /\ extra' = IF extra > 0 THEN extra - 1 ELSE extra
    /\ cat_idx' = cat_idx + 1
    /\ UNCHANGED <<sel_pool, sel_num, sel_categories, sel_result, sel_pc>>
    /\ UNCHANGED <<pool_vars, clean_vars, par_vars, pure_vars>>

\* line 695: the for loop is over, the while of line 746 is next
GreedyDone ==
    /\ sel_pc = "greedy"
    /\ cat_idx > Len(sel_categories)
    /\ sel_pc' = "while"
    /\ UNCHANGED <<sel_pool, sel_num, sel_categories, selected, sel_used, extra, cat_idx, sel_result>>
    /\ UNCHANGED <<pool_vars, clean_vars, par_vars, pure_vars>>

\* lines 746-747: too few questions selected, a pass over the categories begins
BackfillPass ==
    /\ sel_pc = "while"
    /\ Len(selected) < sel_num
    /\ sel_pc' = "for"
    /\ cat_idx' = 1
    /\ UNCHANGED <<sel_pool, sel_num, sel_categories, selected, sel_used, extra, sel_result>>
    /\ UNCHANGED <<pool_vars, clean_vars, par_vars, pure_vars>>

\* lines 748-749: break
BackfillBreak ==
    /\ sel_pc = "for"
    /\ cat_idx <= Len(sel_categories)
    /\ Len(selected) >= sel_num
    /\ sel_pc' = "while"
    /\ UNCHANGED <<sel_pool, sel_num, sel_categories, selected, sel_used, extra, cat_idx, sel_result>>
    /\ UNCHANGED <<pool_vars, clean_vars, par_vars, pure_vars>>

\* lines 751-760: the category has nothing left to add
BackfillSkip ==
    /\ sel_pc = "for"
    /\ cat_idx <= Len(sel_categories)
    /\ Len(selected) < sel_num
    /\ Remaining(sel_pool, sel_categories[cat_idx], selected, sel_used) = <<>>
    /\ cat_idx' = cat_idx + 1
    /\ UNCHANGED <<sel_pool, sel_num, sel_categories, selected, sel_used, extra, sel_result, sel_pc>>
    /\ UNCHANGED <<pool_vars, clean_vars, par_vars, pure_vars>>

\* lines 754-769: the first remaining question of the category is added
BackfillAdd ==
    /\ sel_pc = "for"
    /\ cat_idx <= Len(sel_categories)
    /\ Len(selected) < sel_num
    /\ Remaining(sel_pool, sel_categories[cat_idx], selected, sel_used) /= <<>>
    /\ LET question == Head(Remaining(sel_pool, sel_categories[cat_idx], selected, sel_used))
       IN /\ selected' = Append(selected, question)
          /\ sel_used' = sel_used \cup {ExtendedKey(question)}
    /\ cat_idx' = cat_idx + 1
    /\ UNCHANGED <<sel_pool, sel_num, sel_categories, extra, sel_result, sel_pc>>
    /\ UNCHANGED <<pool_vars, clean_vars, par_vars, pure_vars>>

\* line 747: the pass is over, back to the test of line 746
BackfillPassEnd ==
    /\ sel_pc = "for"
    /\ cat_idx > Len(sel_categories)
    /\ sel_pc' = "while"
    /\ UNCHANGED <<sel_pool, sel_num, sel_categories, selected, sel_used, extra, cat_idx, sel_result>>
    /\ UNCHANGED <<pool_vars, clean_vars, par_vars, pure_vars>>

\* lines 746 and 771-779: enough questions, the first num_questions are returned
Return ==
    /\ sel_pc = "while"
    /\ Len(selected) >= sel_num
    /\ sel_result' = ReturnSlice(selected, sel_num)
    /\ sel_pc' = "done"
    /\ UNCHANGED <<sel_pool, sel_num, sel_categories, selected, sel_used, extra, cat_idx>>
    /\ UNCHANGED <<pool_vars, clean_vars, par_vars, pure_vars>>

SelNext ==
    \/ GreedySkip
    \/ GreedySelect
    \/ GreedyDone
    \/ BackfillPass
    \/ BackfillBreak
    \/ BackfillSkip
    \/ BackfillAdd
    \/ BackfillPassEnd
    \/ Return

\* the interpreter keeps executing the function until it returns
SelSpec == SelInit /\ [][SelNext]_vars /\ WF_vars(SelNext)

(***************************************************************************)
(* clean_json_content, applied to every text of RawTexts, of               *)
(* TruncatedTexts and of DateTexts.                                        *)
(***************************************************************************)
CleanInit ==
    /\ raw \in RawTexts \cup TruncatedTexts \cup DateTexts
    /\ cleaned = ""
    /\ clean_pc = "called"
    /\ pool_idle
    /\ sel_idle
    /\ par_idle
    /\ pure_idle

\* lines 822-954
Clean ==
    /\ clean_pc = "called"
    /\ cleaned' = clean_json_content(raw)
    /\ clean_pc' = "returned"
    /\ UNCHANGED <<raw, pool_vars, sel_vars, par_vars, pure_vars>>

CleanNext == Clean

CleanSpec == CleanInit /\ [][CleanNext]_vars

(***************************************************************************)
(* generate_questions_ollama_parallel (lines 1110-1148) and the batch task *)
(* generate_questions_batch_ollama_async (lines 1044-1097).  The tasks are *)
(* coroutines of one event loop: a coroutine runs until it awaits, and     *)
(* ollama.chat (line 1067) is a synchronous call that is not awaited, so   *)
(* the loop runs nothing else while a call is in flight.                   *)
(***************************************************************************)
MaxParQuestions == 6
batch_max_retries == 3
default_batch_size == 5

\* the records a response of the parallel mode is made of
ParCandidates == {CandE1, CandK1, CandS3}

\* a probe that reports the server up whatever it met
ProbeAlwaysUp(outcome) == TRUE

\* lines 1099-1108: True for status 200, False for another status or an exception
check_ollama_server(outcome) == outcome = "ok"

\* lines 1116-1117
BatchSize(n) == IF n > 10 /\ default_batch_size > 3 THEN 3 ELSE default_batch_size

\* len(range(0, num_questions, batch_size)) (line 1120)
NumTasks(n) == (n + BatchSize(n) - 1) \div BatchSize(n)

\* str.strip() of the left and of the right end
RECURSIVE LStrip(_)
LStrip(s) == IF s /= "" /\ IsSpace(Head(s)) THEN LStrip(Tail(s)) ELSE s
RECURSIVE RStrip(_)
RStrip(s) ==
    IF s /= "" /\ IsSpace(Char(s, Len(s))) THEN RStrip(Slice(s, 1, Len(s) - 1)) ELSE s

\* lines 1321-1329
create_question_key(q) ==
    <<q.category, q.metric, q.timeframe, StrFloat(q.target_value),
      CollapseSpaces(RStrip(LStrip(Lower(q.question))))>>

\* lines 1031-1036: the for loop of process_ollama_response
RECURSIVE ValidatedQuestions(_, _, _, _)
ValidatedQuestions(qs, validated, used_keys, verdict) ==
    IF qs = <<>> THEN validated
    ELSE IF verdict[Head(qs)].ok /\ create_question_key(verdict[Head(qs)].q) \notin used_keys
        THEN ValidatedQuestions(Tail(qs), Append(validated, verdict[Head(qs)].q),
                                used_keys \cup {create_question_key(verdict[Head(qs)].q)},
                                verdict)
    ELSE ValidatedQuestions(Tail(qs), validated, used_keys, verdict)

\* lines 1014-1042: content is the cleaned text, qs what json.loads makes of it;
\* countries is None, which the validator reads as no country list
process_ollama_response(content, qs, crypto) ==
    IF ~JsonOk(content) THEN <<>>
    ELSE ValidatedQuestions(qs, <<>>, {}, Validated[crypto][<<>>])

\* no ollama.chat call is in flight: the event loop can run a coroutine
LoopFree == \A t \in DOMAIN tasks : tasks[t].pc /= "call"

\* asyncio.create_task (line 1124): the coroutine has not run yet
NewTask == [pc |-> "new", attempt |-> 0, raised |-> FALSE, result |-> <<>>]

\* asyncio.gather(*tasks) without return_exceptions: the first exception is
\* raised to line 1146 and the function returns []
RECURSIVE GatherRaising(_)
GatherRaising(ts) ==
    IF \E t \in DOMAIN ts : ts[t].raised THEN <<>>
    ELSE IF ts = <<>> THEN <<>>
    ELSE GatherRaising(SubSeq(ts, 1, Len(ts) - 1)) \o ts[Len(ts)].result

\* lines 1139-1145: the results in the order of tasks, exceptions passed over
RECURSIVE GatherResults(_)
GatherResults(ts) ==
    IF ts = <<>> THEN <<>>
    ELSE GatherResults(SubSeq(ts, 1, Len(ts) - 1))
            \o (IF ts[Len(ts)].raised THEN <<>> ELSE ts[Len(ts)].result)

\* the call of generate_questions_ollama_parallel by generate_questions
\* (question_generator.py lines 47-57)
ParInit ==
    /\ par_num \in 0..MaxParQuestions
    /\ par_crypto \in CryptoOptions
    /\ probe = "none"
    /\ tasks = <<>>
    /\ calls = 0
    /\ par_result = <<>>
    /\ par_pc = "probe"
    /\ pool_idle
    /\ sel_idle
    /\ clean_idle
    /\ pure_idle

\* lines 1112-1114: the probe; an unavailable server ends the function
Probe ==
    /\ par_pc = "probe"
    /\ \E outcome \in {"ok", "status", "exception"} :
        /\ probe' = outcome
        /\ par_pc' = IF check_ollama_server(outcome) THEN "launch" ELSE "returned"
    /\ UNCHANGED <<par_num, par_crypto, tasks, calls, par_result>>
    /\ UNCHANGED <<pool_vars, sel_vars, clean_vars, pure_vars>>

\* lines 1123-1137: one more task is created, then asyncio.sleep(0.5) is awaited
Launch ==
    /\ par_pc = "launch"
    /\ LoopFree
    /\ Len(tasks) < NumTasks(par_num)
    /\ tasks' = Append(tasks, NewTask)
    /\ UNCHANGED <<par_num, par_crypto, probe, calls, par_result, par_pc>>
    /\ UNCHANGED <<pool_vars, sel_vars, clean_vars, pure_vars>>

\* line 1123: the for loop is over, asyncio.gather is awaited (line 1140)
LaunchDone ==
    /\ par_pc = "launch"
    /\ LoopFree
    /\ Len(tasks) >= NumTasks(par_num)
    /\ par_pc' = "gather"
    /\ UNCHANGED <<par_num, par_crypto, probe, tasks, calls, par_result>>
    /\ UNCHANGED <<pool_vars, sel_vars, clean_vars, pure_vars>>

\* lines 1046-1061: building the prompt raises, the task ends with the exception
TaskRaise(t) ==
    /\ tasks[t].pc = "new"
    /\ LoopFree
    /\ tasks' = [tasks EXCEPT ![t] = [@ EXCEPT !.pc = "done", !.raised = TRUE]]
    /\ UNCHANGED <<par_num, par_crypto, probe, calls, par_result, par_pc>>
    /\ UNCHANGED <<pool_vars, sel_vars, clean_vars, pure_vars>>

\* lines 1065-1067: the next attempt calls ollama.chat
TaskCall(t) ==
    /\ tasks[t].pc \in {"new", "sleep"}
    /\ tasks[t].attempt < batch_max_retries
    /\ LoopFree
    /\ tasks' = [tasks EXCEPT ![t] = [@ EXCEPT !.pc = "call", !.attempt = @ + 1]]
    /\ calls' = calls + 1
    /\ UNCHANGED <<par_num, par_crypto, probe, par_result, par_pc>>
    /\ UNCHANGED <<pool_vars, sel_vars, clean_vars, pure_vars>>

\* lines 1065 and 1097: the sleep after the last attempt is over, return []
TaskExhausted(t) ==
    /\ tasks[t].pc = "sleep"
    /\ tasks[t].attempt >= batch_max_retries
    /\ LoopFree
    /\ tasks' = [tasks EXCEPT ![t] = [@ EXCEPT !.pc = "done"]]
    /\ UNCHANGED <<par_num, par_crypto, probe, calls, par_result, par_pc>>
    /\ UNCHANGED <<pool_vars, sel_vars, clean_vars, pure_vars>>

\* lines 1087-1095: ollama.chat raises; asyncio.sleep is awaited unless the
\* attempt was the last one, after which line 1097 returns []
CallRaises(t) ==
    /\ tasks[t].pc = "call"
    /\ tasks' = [tasks EXCEPT ![t] =
                    [@ EXCEPT !.pc = IF tasks[t].attempt < batch_max_retries THEN "sleep" ELSE "done"]]
    /\ UNCHANGED <<par_num, par_crypto, probe, calls, par_result, par_pc>>
    /\ UNCHANGED <<pool_vars, sel_vars, clean_vars, pure_vars>>

\* what lines 1081-1085 make of the processed response: return it, or sleep
AfterResponse(task, questions) ==
    IF questions /= <<>> THEN [task EXCEPT !.pc = "done", !.result = questions]
    ELSE [task EXCEPT !.pc = "sleep"]

\* lines 1067-1085: ollama.chat returns and the response is processed
CallReturns(t) ==
    /\ tasks[t].pc = "call"
    /\ \E shape \in ResponseShapes :
        \E qs \in [1..JsonItems(clean_json_content(shape)) -> ParCandidates] :
            tasks' = [tasks EXCEPT ![t] =
                AfterResponse(@, process_ollama_response(clean_json_content(shape), qs, par_crypto))]
    /\ UNCHANGED <<par_num, par_crypto, probe, calls, par_result, par_pc>>
    /\ UNCHANGED <<pool_vars, sel_vars, clean_vars, pure_vars>>

\* lines 1139-1145: every task has ended, the results are put together
Gather ==
    /\ par_pc = "gather"
    /\ \A t \in DOMAIN tasks : tasks[t].pc = "done"
    /\ par_result' = GatherResults(tasks)
    /\ par_pc' = "returned"
    /\ UNCHANGED <<par_num, par_crypto, probe, tasks, calls>>
    /\ UNCHANGED <<pool_vars, sel_vars, clean_vars, pure_vars>>

ParNext ==
    \/ Probe
    \/ Launch
    \/ LaunchDone
    \/ \E t \in DOMAIN tasks : TaskRaise(t)
    \/ \E t \in DOMAIN tasks : TaskCall(t)
    \/ \E t \in DOMAIN tasks : TaskExhausted(t)
    \/ \E t \in DOMAIN tasks : CallRaises(t)
    \/ \E t \in DOMAIN tasks : CallReturns(t)
    \/ Gather

ParSpec == ParInit /\ [][ParNext]_vars

(***************************************************************************)
(* The two validators of one record: validate_single_question of           *)
(* ollama_client.py (lines 354-451), called once and called again on the   *)
(* record it accepted, and validate_single_question of                     *)
(* question_generator.py (lines 244-347), the strict profile.              *)
(***************************************************************************)
\* question_generator.py, line 247
generator_required_fields ==
    {"question", "timeframe", "category", "metric", "measurement_source", "target_value"}

\* a profile that knows financial_market as well
profile_with_market ==
    [cryptocurrency |->
        [metrics |-> {"price_target", "market_cap", "volume_24h", "price_change", "market_cap_change"},
         sources |-> {"CoinMarketCap", "Binance", "CoinGecko"}],
     social_events |->
        [metrics |-> {"protest_count", "fatalities", "event_frequency", "violence_incidents", "riot_count"},
         sources |-> {"ACLED database"}],
     economic_indicator |->
        [metrics |-> {"gdp_growth_rate", "inflation_rate", "unemployment_rate", "interest_rate",
                      "treasury_rate", "cpi_change"},
         sources |-> {"BEA initial GDP release", "BLS initial CPI release", "Federal Reserve",
                      "FRED database"}],
     financial_market |->
        [metrics |-> {"price_target", "volume_target", "market_cap_target"},
         sources |-> {"EOD Historical Data"}]]

\* question_generator.py, lines 268-304: the two vocabularies, category by category
generator_profile ==
    [cryptocurrency |->
        [metrics |-> {"price_target", "market_cap", "volume_24h", "price_change", "market_cap_change"},
         sources |-> {"CoinMarketCap", "Binance", "CoinGecko"}],
     social_events |->
        [metrics |-> {"protest_count", "fatalities", "event_frequency", "violence_incidents", "riot_count"},
         sources |-> {"ACLED database"}],
     economic_indicator |->
        [metrics |-> {"gdp_growth_rate", "inflation_rate", "unemployment_rate", "interest_rate",
                      "treasury_rate", "cpi_change"},
         sources |-> {"BEA initial GDP release", "BLS initial CPI release", "Federal Reserve",
                      "FRED database"}]]

\* lines 268-289 and 291-304
valid_metrics == [c \in DOMAIN generator_profile |-> generator_profile[c].metrics]
valid_sources == [c \in DOMAIN generator_profile |-> generator_profile[c].sources]

\* lines 313-315
GeneratorMetricOk(q) ==
    RStrip(LStrip(Lower(q.metric))) \in {Lower(m) : m \in valid_metrics[q.category]}

\* lines 329-333: the value is str(target_value), cleaned and read as a float
GeneratorValueOk(q) ==
    FloatOk(RStrip(LStrip(Replace(Replace(Replace(q.target_value, "$", ""), "%", ""), ",", ""))))

\* question_generator.py, lines 244-347: the returned value
generator_validate_single_question(question) ==
    IF ~(generator_required_fields \subseteq DOMAIN question) THEN FALSE
    ELSE IF Contains(question.timeframe, " to ") \/ Contains(question.timeframe, " and ") THEN FALSE
    ELSE IF ~DateOk(question.timeframe) THEN FALSE
    ELSE IF ~DateInRange(question.timeframe) THEN FALSE
    ELSE IF question.category \notin DOMAIN valid_metrics THEN FALSE
    ELSE IF ~GeneratorMetricOk(question) THEN FALSE
    ELSE IF question.measurement_source \notin valid_sources[question.category] THEN FALSE
    ELSE IF ~GeneratorValueOk(question) THEN FALSE
    ELSE StartsAt(question.question, 1, "Will ")

\* candidates that name their asset as the validator of ollama_client.py writes it
CandN1 ==
    [question |-> "Will Apple (AAPL.US) exceed 250 by 2025/03/31?",
     timeframe |-> "2025/03/31",
     category |-> "financial_market",
     metric |-> "price_target",
     target_value |-> "250"]
CandN2 ==
    [question |-> "Will Bitcoin (BTC) exceed 100000 by 2025/03/31?",
     timeframe |-> "2025/03/31",
     category |-> "cryptocurrency",
     metric |-> "price_target",
     target_value |-> "100000"]
CanonicalCandidates == {CandN1, CandN2}

\* the record with the field measurement_source
WithSource(c, source) ==
    [f \in DOMAIN c \cup {"measurement_source"} |->
        IF f = "measurement_source" THEN source ELSE c[f]]

MeasurementSources == {"CoinMarketCap", "ACLED database", "FRED database", "EOD Historical Data"}

\* the records handed to the validators: with a measurement source, and without
ValRecords ==
    Candidates \cup CanonicalCandidates
    \cup {WithSource(c, source) : c \in Candidates \cup CanonicalCandidates,
                                  source \in MeasurementSources}

ValInit ==
    /\ val_record \in ValRecords
    /\ val_crypto \in CryptoOptions
    /\ val_countries \in CountryOptions
    /\ val_once = val_unset
    /\ val_twice = val_unset
    /\ val_strict = FALSE
    /\ val_pc = "called"
    /\ pool_idle
    /\ sel_idle
    /\ clean_idle
    /\ par_idle
    /\ div_idle

\* ollama_client.py, lines 354-451: the first call
ValidateOnce ==
    /\ val_pc = "called"
    /\ val_once' = validate_single_question(val_record, val_crypto, val_countries)
    /\ val_pc' = "once"
    /\ UNCHANGED <<val_record, val_crypto, val_countries, val_twice, val_strict>>
    /\ UNCHANGED <<pool_vars, sel_vars, clean_vars, par_vars, div_vars>>

\* the record as a second call reads it: line 402 takes str() of the float that
\* line 403 stored
AsRead(q) == [q EXCEPT !.target_value = StrFloat(q.target_value)]

\* ollama_client.py, lines 354-451: a second call on the record that was accepted
ValidateTwice ==
    /\ val_pc = "once"
    /\ val_once.ok
    /\ val_twice' = validate_single_question(AsRead(val_once.q), val_crypto, val_countries)
    /\ val_pc' = "twice"
    /\ UNCHANGED <<val_record, val_crypto, val_countries, val_once, val_strict>>
    /\ UNCHANGED <<pool_vars, sel_vars, clean_vars, par_vars, div_vars>>

\* question_generator.py, lines 244-347
ValidateStrict ==
    /\ val_pc = "called"
    /\ val_strict' = generator_validate_single_question(val_record)
    /\ val_pc' = "strict"
    /\ UNCHANGED <<val_record, val_crypto, val_countries, val_once, val_twice>>
    /\ UNCHANGED <<pool_vars, sel_vars, clean_vars, par_vars, div_vars>>

ValNext ==
    \/ ValidateOnce
    \/ ValidateTwice
    \/ ValidateStrict

ValSpec == ValInit /\ [][ValNext]_vars

(***************************************************************************)
(* Properties.                                                             *)
(***************************************************************************)
PoolRecords == {question_pool[i] : i \in DOMAIN question_pool}

C1_Key(q) == <<q.category, q.metric, q.timeframe, StrFloat(q.target_value)>>

\* C1: after any sequence of accumulation iterations no two records of the pool
\* have the same key (category, metric, timeframe, str(float(target_value))),
\* and the used-key set holds exactly the keys of the pool, so that a candidate
\* whose key is already used is never appended.
C1_PoolKeysUnique ==
    /\ \A i, j \in DOMAIN question_pool :
        C1_Key(question_pool[i]) = C1_Key(question_pool[j]) => i = j
    /\ used_questions = {C1_Key(q) : q \in PoolRecords}

\* two records are in the pool, one of them the gdp question with value 30000,
\* which two of the candidates (CandE1, CandE8) stand for
C1_Witness ==
    \E i, j \in DOMAIN question_pool :
        /\ i /= j
        /\ question_pool[i].metric = "gdp"
        /\ question_pool[i].target_value = 30000
        /\ question_pool[j].category = "economic_indicator"

\* C2: every iteration of the accumulation loop, whatever its outcome, adds one
\* to the attempt counter (so that the cap on the counter bounds the number of
\* iterations).
C2_EveryIterationCounts ==
    [][(pc = "chat" /\ pc' = "while") => total_attempts' = total_attempts + 1]_vars

\* C3: select_diverse_questions terminates, for every pool, every N >= 0 and
\* every non-empty list of categories.
C3_Terminates == <>(sel_pc = "done")

C4_Key(q) ==
    <<q.category, q.metric, q.timeframe, StrFloat(q.target_value), Lower(q.question)>>

C4_ResultOk ==
    sel_pc = "done" =>
        /\ Len(sel_result) <= sel_num
        /\ \A i \in DOMAIN sel_result : sel_result[i] \in Range(sel_pool)
        /\ \A i, j \in DOMAIN sel_result :
            C4_Key(sel_result[i]) = C4_Key(sel_result[j]) => i = j

\* C4: whenever select_diverse_questions returns, its result has at most N
\* records, each of them a record of the pool, no two with the same extended key
\* (category, metric, timeframe, str(float(target_value)), lower-cased question),
\* and no step of the selection changes the pool.
C4_Result == []C4_ResultOk /\ [][sel_pool' = sel_pool]_vars

\* three questions are returned, one of them a record that the sanity caps keep
\* from the greedy step, so that only the backfill can have added it
C4_Witness ==
    /\ sel_pc = "done"
    /\ Len(sel_result) = 3
    /\ \E i \in DOMAIN sel_result : SanityRejects(sel_result[i], sel_result[i].category)
    /\ \E i \in DOMAIN sel_result : ~SanityRejects(sel_result[i], sel_result[i].category)

\* C5: the text that clean_json_content returns is text that json.loads parses
\* as a list, for every input text.
C5_ReturnsList == clean_pc = "returned" => (JsonOk(cleaned) /\ JsonIsList(cleaned))

\* C6: every record of the pool has a timeframe that strptime reads as
\* YYYY/MM/DD and that lies in [2024-12-01, 2025-06-30], and one of the four
\* categories; a social_events candidate with timeframe 2025/07/01 is rejected.
C6_DateAndCategory ==
    /\ \A q \in PoolRecords :
        /\ DateOk(q.timeframe)
        /\ Ordinal(2024, 12, 1) <= DateOf(q.timeframe)
        /\ DateOf(q.timeframe) <= Ordinal(2025, 6, 30)
        /\ q.category \in {"economic_indicator", "social_events", "cryptocurrency", "financial_market"}
    /\ \A c \in Candidates :
        (/\ {"category", "timeframe"} \subseteq DOMAIN c
         /\ c.category = "social_events"
         /\ c.timeframe = "2025/07/01")
        => ~Validated[crypto_data][allowed_countries][c].ok

\* a social_events record dated 2025/03/01 is in the pool; the validator has
\* refused the candidate of the same category dated 2025/07/01
C6_Witness ==
    /\ \E q \in PoolRecords : q.category = "social_events" /\ q.timeframe = "2025/03/01"
    /\ ~Validated[crypto_data][allowed_countries][CandS4].ok

\* C7: every cryptocurrency record of the pool whose question holds the symbol
\* or the name of a quote with price P has its value in [0.5 * P, 2 * P]; with
\* BTC at 90000 the target "$100,000" is accepted as 100000, with BTC at 40000
\* the same record is rejected.
C7_CryptoRange ==
    /\ \A q \in PoolRecords :
        q.category = "cryptocurrency" =>
            \A k \in DOMAIN crypto_data :
                (\/ Contains(q.question, crypto_data[k].symbol)
                 \/ Contains(q.question, crypto_data[k].name))
                => /\ crypto_data[k].price <= 2 * q.target_value
                   /\ q.target_value <= 2 * crypto_data[k].price
    /\ Validated[Quotes(90000)][allowed_countries][CandK1].ok
    /\ Validated[Quotes(90000)][allowed_countries][CandK1].q.target_value = 100000
    /\ ~Validated[Quotes(40000)][allowed_countries][CandK1].ok

\* with BTC at 90000 the record of "$100,000" is in the pool
C7_Witness ==
    /\ crypto_data = Quotes(90000)
    /\ \E q \in PoolRecords :
        /\ q.category = "cryptocurrency"
        /\ Contains(q.question, "BTC")
        /\ q.target_value = 100000

\* C8: a cryptocurrency record whose question names no symbol and no asset name
\* of the supplied quotes is never in the pool.
C8_UnknownCryptoRejected ==
    \A q \in PoolRecords :
        (q.category = "cryptocurrency" /\ crypto_data /= <<>>) =>
            \E k \in DOMAIN crypto_data :
                \/ Contains(q.question, crypto_data[k].symbol)
                \/ Contains(q.question, crypto_data[k].name)

\* C9 (amended): every social_events record of the pool has its value in
\* [50, 500], and when the list of allowed countries is not empty the question,
\* put in upper case, holds one of the allowed codes.
C9_SocialRangeAndCountry ==
    \A q \in PoolRecords :
        q.category = "social_events" =>
            /\ 50 <= q.target_value /\ q.target_value <= 500
            /\ allowed_countries /= <<>> =>
                \E k \in DOMAIN allowed_countries : Contains(Upper(q.question), allowed_countries[k])

\* C9 as stated: the question itself holds one of the allowed codes
C9_SocialCountryLiteral ==
    \A q \in PoolRecords :
        q.category = "social_events" =>
            /\ 50 <= q.target_value /\ q.target_value <= 500
            /\ allowed_countries /= <<>> =>
                \E k \in DOMAIN allowed_countries : Contains(q.question, allowed_countries[k])

\* the question about France is in the pool while the allowed codes are USA and FRA
C9_Witness ==
    /\ allowed_countries = <<"USA", "FRA">>
    /\ \E q \in PoolRecords : q.category = "social_events" /\ Contains(q.question, "France")

\* the ranges C10 names, chosen by keyword in the metric
C10_InClaimedRange(metric, value) ==
    LET m == Lower(metric) IN
    IF Contains(m, "gdp") THEN 20000 <= value /\ value <= 50000
    ELSE IF Contains(m, "unemployment") THEN 2 <= value /\ value <= 15
    ELSE IF Contains(m, "inflation") THEN -2 <= value /\ value <= 15
    ELSE IF Contains(m, "treasury") \/ Contains(m, "interest") THEN -5 <= value /\ value <= 10
    ELSE IF Contains(m, "cpi") THEN 200 <= value /\ value <= 400
    ELSE IF Contains(m, "industrial_production") \/ Contains(m, "industrial production")
        THEN 80 <= value /\ value <= 120
    ELSE TRUE

\* C10: an economic_indicator record is in the pool only when its value lies in
\* the range that the keyword of its metric selects (gdp, unemployment,
\* inflation, treasury/interest, cpi, industrial production).
C10_EconomicRanges ==
    \A q \in PoolRecords :
        q.category = "economic_indicator" => C10_InClaimedRange(q.metric, q.target_value)

\* C11: every financial_market record of the pool has a value above 0 when its
\* metric is a price metric, of at least 1000 when it is a volume metric and of
\* at least 1000000 when it is a market-cap metric.
C11_FinancialRanges ==
    \A q \in PoolRecords :
        q.category = "financial_market" =>
            IF Contains(Lower(q.metric), "price") THEN q.target_value > 0
            ELSE IF Contains(Lower(q.metric), "volume") THEN q.target_value >= 1000
            ELSE IF Contains(Lower(q.metric), "market_cap") THEN q.target_value >= 1000000
            ELSE TRUE

\* a response that clean_json_content leaves unparseable (Expecting ':' delimiter)
RefusedShape == "{\"a\" \"a\"}"

C13_ProbeGates ==
    probe \in {"status", "exception"} =>
        /\ tasks = <<>>
        /\ calls = 0
        /\ par_pc = "returned"
        /\ par_result = <<>>

C13_Witness ==
    /\ probe = "exception"
    /\ par_pc = "returned"
    /\ par_num > 0
    /\ par_result = <<>>

\* the results of the tasks 1..k that did not fail, in launch order
RECURSIVE C14_Succeeded(_)
C14_Succeeded(k) ==
    IF k = 0 THEN <<>>
    ELSE C14_Succeeded(k - 1) \o (IF tasks[k].raised THEN <<>> ELSE tasks[k].result)

\* task t ends in this step by raising or with its attempts used up
C14_Fails(t) ==
    /\ tasks[t].pc /= "done"
    /\ tasks'[t].pc = "done"
    /\ tasks'[t].raised \/ tasks'[t].result = <<>>

\* C14: in batched-parallel mode a batch task that fails (it raises, or uses
\* up its 3 attempts) contributes nothing and leaves its sibling tasks as they
\* are; the function returns only after every task has ended, and what it
\* returns is the concatenation, in launch order, of the results of the tasks
\* that succeeded.
C14_FailureIsolated ==
    [][/\ \A t \in DOMAIN tasks :
            C14_Fails(t) =>
                /\ par_pc' = par_pc
                /\ par_pc /= "returned"
                /\ DOMAIN tasks' = DOMAIN tasks
                /\ \A u \in DOMAIN tasks \ {t} : tasks'[u] = tasks[u]
       /\ (par_pc /= "returned" /\ par_pc' = "returned" /\ probe' = "ok") =>
            /\ Len(tasks') = NumTasks(par_num)
            /\ \A t \in DOMAIN tasks' : tasks'[t].pc = "done"
            /\ par_result' = C14_Succeeded(Len(tasks))']_vars

C14_Witness ==
    /\ par_pc = "returned"
    /\ Len(tasks) = 2
    /\ tasks[1].raised
    /\ tasks[2].result /= <<>>
    /\ par_result = tasks[2].result

\* C15: in batched-parallel mode the model calls of two distinct batch tasks
\* can be in flight at the same time: while the call of one task has not
\* returned, a sibling that is ready to make its next attempt can start its call.
C15_CallsOverlap ==
    \A t, u \in DOMAIN tasks :
        (/\ t /= u
         /\ tasks[t].pc = "call"
         /\ tasks[u].pc \in {"new", "sleep"}
         /\ tasks[u].attempt < batch_max_retries)
            => ENABLED TaskCall(u)

\* C16: the list returned by batched-parallel generation holds no two records
\* with the same uniqueness key (category, metric, timeframe, normalized
\* target_value, normalized question text), also when the two records come
\* from different batch tasks.
C16_ResultKeysUnique ==
    par_pc = "returned" =>
        \A i, j \in DOMAIN par_result :
            create_question_key(par_result[i]) = create_question_key(par_result[j]) => i = j

\* C17 (Scenario E): for a raw text that ends inside the measurement_source
\* string of a financial_market record, the cleaned text is a parseable list
\* that holds the record, closed, with measurement_source "EOD Historical Data".
C17_TruncatedRepaired ==
    (clean_pc = "returned" /\ raw \in TruncatedTexts) =>
        /\ JsonOk(cleaned)
        /\ JsonIsList(cleaned)
        /\ Contains(cleaned, "\"category\": \"financial_market\"")
        /\ Contains(cleaned, "\"measurement_source\": \"EOD Historical Data\"}")

\* C18: the pool quota of each required category is 4 times its target in the
\* final selection: 4 * (N \div k + 1) for the first N % k categories and
\* 4 * (N \div k) for the others, N the requested total and k the number of
\* required categories.
C18_QuotaWithRemainder ==
    \A i \in DOMAIN required_categories :
        pool_targets[required_categories[i]] =
            4 * ((num_questions \div Len(required_categories))
                 + (IF i <= num_questions % Len(required_categories) THEN 1 ELSE 0))

\* the number of pool records of category c
C19_InPool(c) == Cardinality({i \in DOMAIN question_pool : question_pool[i].category = c})

\* C19: in every state of the accumulation loop, for each required category
\* the number of pool records of the category equals its accepted count and
\* is at most its pool quota, no pool record has a category outside the
\* required list, and the pool is no longer than pool_size.
C19_CountsAndQuotas ==
    /\ \A c \in Range(required_categories) :
        /\ category_counts[c] = C19_InPool(c)
        /\ category_counts[c] <= pool_targets[c]
    /\ \A i \in DOMAIN question_pool : question_pool[i].category \in Range(required_categories)
    /\ Len(question_pool) <= PoolSize(num_questions)

C19_Witness ==
    /\ pc = "while"
    /\ \E c, d \in Range(required_categories) :
        /\ pool_targets[c] > 0
        /\ category_counts[c] = pool_targets[c]
        /\ C19_InPool(c) = pool_targets[c]
        /\ category_counts[d] < pool_targets[d]

\* every required category has its pool quota
C20_AllAtQuota ==
    \A c \in Range(required_categories) : category_counts[c] >= pool_targets[c]

\* C20: a generation call is made only in an iteration in which some category
\* is below its pool quota, and the category named in the prompt of the
\* iteration is one whose accepted count is below its quota; once every
\* category has its quota the loop ends, and no generation call follows.
C20_CallOnlyBelowQuota ==
    [][/\ pc' = "chat" =>
            /\ ~C20_AllAtQuota'
            /\ target_category' \in Range(required_categories)
            /\ category_counts'[target_category'] < pool_targets[target_category']
       /\ (pc = "while" /\ C20_AllAtQuota) => pc' = "select"
       /\ pc \in {"select", "returned"} => pc' = pc]_vars

C20_Witness ==
    /\ pc = "chat"
    /\ total_attempts > 0
    /\ \E c \in Range(required_categories) :
        pool_targets[c] > 0 /\ category_counts[c] = pool_targets[c]
    /\ category_counts[target_category] < pool_targets[target_category]

\* the step in which a generation call is treated as failed for its iteration:
\* the exception of the last call leaves the retry loop
C21_CallFails == pc = "chat" /\ pc' = "while" /\ retry_count' > retry_count

\* C21: within one iteration a failing generation call is retried until it
\* succeeds or 3 retries have been made, each sleep before a retry being
\* double the one before, from a fixed base; only then is the call treated as
\* failed, and the iteration counts as one attempt and adds nothing to the pool.
C21_ThreeRetries ==
    [][/\ pc' = "chat" =>
            \A i \in 2..Len(slept') : slept'[i] = 2 * slept'[i - 1]
       /\ C21_CallFails =>
            /\ Len(slept) = 3
            /\ total_attempts' = total_attempts + 1
            /\ question_pool' = question_pool]_vars

\* C22: the pool state of generate_questions_pool is append-only: in every
\* step of the accumulation loop the pool keeps its records, unchanged and in
\* place, and can only get new ones at its end, the set of used keys only
\* grows, and no category count decreases.
C22_AppendOnly ==
    [][/\ Len(question_pool') >= Len(question_pool)
       /\ SubSeq(question_pool', 1, Len(question_pool)) = question_pool
       /\ used_questions \subseteq used_questions'
       /\ DOMAIN category_counts' = DOMAIN category_counts
       /\ \A c \in DOMAIN category_counts : category_counts'[c] >= category_counts[c]]_vars

C22_Witness ==
    /\ pc = "while"
    /\ total_attempts = 2
    /\ Len(question_pool) >= 3
    /\ Cardinality(used_questions) = Len(question_pool)

\* C23: in select_diverse_questions the category at position i (from 0) of
\* the required-category list is given the target N \div k + 1 if i < N % k
\* and N \div k otherwise, also when an earlier required category has no
\* record in the pool.
C23_TargetByPosition ==
    (/\ sel_pc = "greedy"
     /\ cat_idx <= Len(sel_categories)
     /\ QuestionsOf(sel_pool, sel_categories[cat_idx]) /= <<>>)
        => TargetCount = (sel_num \div Len(sel_categories))
                            + (IF cat_idx - 1 < sel_num % Len(sel_categories) THEN 1 ELSE 0)

\* the minimum score of candidate i against the candidates of sel
C24_MinScore(i, sel) == Min({div_matrix[i][j] : j \in sel})

\* idx is what the greedy farthest-point reference picks: the first candidate,
\* then each time the unselected candidate with the largest minimum score
\* against the selected ones, the earliest on ties
C24_Greedy(idx) ==
    /\ idx[1] = 1
    /\ \A k \in 2..Len(idx) :
        LET sel == {idx[m] : m \in 1..(k - 1)}
            rest == (1..Len(div_questions)) \ sel
        IN /\ idx[k] \in rest
           /\ \A i \in rest :
                /\ C24_MinScore(i, sel) <= C24_MinScore(idx[k], sel)
                /\ C24_MinScore(i, sel) = C24_MinScore(idx[k], sel) => idx[k] <= i

\* the result is the greedy choice of n candidates
C24_Returns(n) ==
    /\ Len(div_result) = n
    /\ n > 0 => \E idx \in [1..n -> 1..Len(div_questions)] :
                    /\ C24_Greedy(idx)
                    /\ div_result = [k \in 1..n |-> div_questions[idx[k]]]

C24_Smaller(a, b) == IF a < b THEN a ELSE b

\* C24 as stated: for every candidate list and every count >= 0 the result is
\* the greedy farthest-point choice of min(count, number of candidates)
\* candidates.
C24_GreedyOfCount ==
    div_pc = "returned" => C24_Returns(C24_Smaller(div_count, Len(div_questions)))

\* C24: for every candidate list and every count the result is the greedy
\* farthest-point choice of min(max(count, 1), number of candidates)
\* candidates: the first candidate is selected whatever the count, then the
\* unselected candidate with the largest minimum diversity score against the
\* selected ones is added (the earliest on ties) until count candidates are
\* selected or none is left.
C24_GreedyOfSeededCount ==
    div_pc = "returned" =>
        C24_Returns(C24_Smaller(IF div_count < 1 THEN 1 ELSE div_count, Len(div_questions)))

C24_Witness ==
    /\ div_pc = "returned"
    /\ Len(div_questions) = 3
    /\ div_count = 2
    /\ div_result = <<div_questions[1], div_questions[3]>>
    /\ div_questions[2] /= div_questions[3]
    /\ div_matrix[3][1] > div_matrix[2][1]

\* 1 if the two values differ by more than 20% of the larger of the two, for
\* values of either sign
C25_ValueScore(v1, v2) ==
    IF 5 * Abs(v1 - v2) > Abs(Max(v1, v2)) THEN 1 ELSE 0

\* the score of the claim for two records
C25_Score(q1, q2, order) ==
    (IF q1.metric /= q2.metric THEN 1 ELSE 0)
    + (IF Abs(DateOf(q1.timeframe) - DateOf(q2.timeframe)) > 30 THEN 1 ELSE 0)
    + C25_ValueScore(q1.target_value, q2.target_value)
    + (IF Range(Entities(q1.question)) \cap Range(Entities(q2.question)) = {} THEN 1 ELSE 0)
    + (IF /\ q1.category = "social_events" /\ q2.category = "social_events"
          /\ Country(q1.question, order) /= Country(q2.question, order)
       THEN 2 ELSE 0)

\* C25: for every pair of records calculate_question_diversity returns the sum
\* of 1 if the metrics differ, 1 if the timeframes are more than 30 days
\* apart, 1 if the target values differ by more than 20% relative to the
\* larger of the two (for negative and zero values as for positive ones), 1 if
\* the sets of uppercase tokens of the two questions are disjoint, and 2 if
\* both records are social_events and their country tokens differ.
C25_DiversityScore ==
    div_pc = "returned" =>
        \A i, j \in DOMAIN div_questions :
            div_matrix[i][j] = C25_Score(div_questions[i], div_questions[j], div_order)

\* the record is one that the selection-stage sanity filters drop
C26_Insane(q) ==
    \/ /\ q.category = "cryptocurrency"
       /\ \/ Contains(q.question, "BTC") /\ q.target_value > 200000
          \/ Contains(q.question, "ATOM") /\ q.target_value > 20
          \/ Contains(q.question, "DOT") /\ q.target_value > 20
    \/ /\ q.category = "social_events"
       /\ (q.target_value < 50 \/ q.target_value > 500)

\* C26: no record returned by select_diverse_questions violates the sanity
\* filters of the selection stage, be it chosen by the greedy step of its
\* category or appended by the shortfall backfill.
C26_ResultSane ==
    sel_pc = "done" => \A i \in DOMAIN sel_result : ~C26_Insane(sel_result[i])

\* C27: a timeframe that is already a full YYYY/MM/DD date is left unchanged by
\* clean_json_content when the question holds no date after "by": the fallback
\* date 2025/04/01 is written only over ranges, partial dates and placeholders.
C27_CanonicalKept ==
    clean_pc = "returned" =>
        \A q \in DateQuestions, t \in CanonicalTimeframes, first \in {"question", "timeframe"} :
            (QuestionDate(q) = "" /\ raw = DateText(q, t, first)) =>
                Contains(cleaned, "\"timeframe\": \"" \o t \o "\"")

\* C28: when fewer questions are asked for than there are required categories,
\* every pool quota is 0: the accumulation loop issues no generation call (it
\* never waits for ollama.chat, counts no attempt, sleeps for no retry) and the
\* pool it hands to the selector is empty.
C28_NoCallBelowOnePerCategory ==
    num_questions < Len(required_categories) =>
        /\ \A c \in Range(required_categories) : pool_targets[c] = 0
        /\ pc \in {"while", "select"}
        /\ total_attempts = 0
        /\ response = "None"
        /\ slept = <<>>
        /\ question_pool = <<>>

\* reached: a request for at least one question and fewer than one per category
\* has left the loop and is at the call of the selector
C28_Witness ==
    /\ pc = "select"
    /\ num_questions > 0
    /\ num_questions < Len(required_categories)
    /\ question_pool = <<>>

\* C29: the normalization of entity names in validate_single_question of
\* ollama_client.py is idempotent: a question that names its asset in the
\* form "Name (SYMBOL)" is left as it is, and the question of a record that
\* is validated twice is the question it had after the first validation.
C29_NormalizeIdempotent ==
    /\ (val_pc \in {"once", "twice"} /\ val_record \in CanonicalCandidates) =>
            val_once.q.question = val_record.question
    /\ val_pc = "twice" => val_twice.q.question = val_once.q.question

\* C30: the validator of question_generator.py returns False for every
\* financial_market record, whatever its other fields are: a record it
\* accepts is an economic_indicator, social_events or cryptocurrency record.
C30_StrictRejectsMarket ==
    val_pc = "strict" =>
        /\ ("category" \in DOMAIN val_record /\ val_record.category = "financial_market") => ~val_strict
        /\ val_strict => val_record.category \in {"economic_indicator", "social_events", "cryptocurrency"}

\* reached: a financial_market record with every required field, a date in the
\* range, the source of its category and a question that starts with "Will "
\* has been through the validator
C30_Witness ==
    /\ val_pc = "strict"
    /\ ~val_strict
    /\ val_record = WithSource(CandF1, "EOD Historical Data")
====
